---- MODULE Spec2Model ----
(***************************************************************************)
(* Sharded gossip initiate/accept handshake of kitsune_p2p                 *)
(* (sharded_gossip/initiate.rs) as a state machine.                        *)
(*                                                                         *)
(* Two gossip instances of the same gossip type ("A" and "B") run the code *)
(* of ShardedGossipLocal; a third certificate "X" is a remote peer that is *)
(* not modelled as an instance: it can be selected as a target and can     *)
(* send any Initiate.  Every `share_mut` closure is one atomic step; the   *)
(* code between two closures, and every `.await`, is a point where other   *)
(* calls on the same instance can run.                                     *)
(*                                                                         *)
(* SpecGen follows one round through generate_blooms_or_regions and its    *)
(* next_bloom_batch calls; SpecUnanswered is an instance whose Initiates   *)
(* are never answered; SpecArq applies the arq algebra of dht/src/arq.rs   *)
(* (is_full, requantize) to inputs of a ring scaled down to 2^Bits, and    *)
(* SpecFit applies its conversions and fits in a topology (to_edge_locs,   *)
(* to_bounds, from_interval, power_and_count_from_length and its exact     *)
(* variant, approximate_arq and the round trips through arcs) on that ring.*)
(* SpecWorkflow is one run of call_zome_workflow                           *)
(* (core/workflow/call_zome_workflow.rs): every result of a collaborator   *)
(* (the ribosome, validation, the source chain) is chosen freely.          *)
(***************************************************************************)
EXTENDS Integers, Sequences, FiniteSets, TLC

\* ------------------------------------------------------------------ bounds
MaxId == 1          \* tie-break ids are drawn from 0..MaxId
MaxTime == 2        \* the clock runs from 0 to MaxTime
MaxCalls == 3       \* calls started in a run of one instance
MaxPairCalls == 4   \* calls started in a run of two instances
MaxBlooms == 0      \* blooms returned by one op-hash query
MaxCursor == 1      \* continuation cursors are drawn from 1..MaxCursor
MaxBatchBlooms == 2 \* blooms of one op-hash query, when the generator runs alone
MaxBatchCursor == 2 \* continuation cursors, when the generator runs alone
MaxBatchCalls == 3  \* next_bloom_batch calls on one round
Bits == 5           \* width of the ring and of its integers, scaled down from 32
MaxQuantumPower == 2 \* topologies have quantum_power in 0..MaxQuantumPower
MaxCenters == 3     \* centerpoints in one list given to to_bounds
MaxCenterCount == 1 \* count of the arqs at the centerpoints
MaxMinChunks == 3   \* min_chunks up to MaxMinChunks, max_chunks up to twice that
MaxRecords == 2     \* records in the scratch space of a zome call
MaxOpTypes == 2     \* ops that one record is validated as
RoundTimeout == 1   \* tuning_params.gossip_round_timeout(), in clock ticks
U8Len == 256        \* values of a u8, the type of a power

Node == {"A", "B"}
Cert == {"A", "B", "X"}
Slot == {1, 2}
Ids == 0 .. MaxId

\* Option<T>: None is the empty sequence, Some(x) the one-element sequence.
None == <<>>
Some(x) == <<x>>
IsSome(o) == o # <<>>
Unwrap(o) == o[1]

\* The agent of an instance; the agent list the peer directory holds for a
\* certificate; the agent list the external peer reports in its Initiate.
AgentOf(n) == "agent_" \o n
DirectoryAgents(c) == {"dir_" \o c}
ExternalAgents(c) == {"agent_" \o c}

\* Quantized coverage of each certificate, as the set of chunks it covers.
LocalArqs(c) == CASE c = "A" -> {0, 1} [] c = "B" -> {1, 2} [] OTHER -> {2, 3}
ArqSetIntersection(a, b) == a \cap b

VARIABLES
    gossip_type,    \* self.gossip_type of the instances
    local_agents,   \* inner.local_agents, per instance
    initiate_tgt,   \* inner.initiate_tgt, per instance: Option<ShardedGossipTarget>
    round_map,      \* inner.round_map, per instance: cert -> Option<RoundState>
    metrics,        \* inner.metrics, per instance
    calls,          \* the calls in flight, per instance and slot
    net,            \* Initiate messages sent by the instances and not yet delivered
    now,            \* the clock read by Instant::now() and elapsed()
    returned,       \* per instance, the call that returned last and its result
    started,        \* calls started so far
    instances,      \* the certificates whose gossip instance is modelled
    gen,            \* one round's message generation: the last next_bloom_batch call
    arq,            \* the arq operation applied last: its inputs and its result
    workflow        \* one run of call_zome_workflow: its position, inputs and effects

vars == <<gossip_type, local_agents, initiate_tgt, round_map, metrics, calls, returned, net, now, started, instances, gen, arq, workflow>>

\* The state of the handshake, and the state outside the handshake.
handshake_vars == <<local_agents, initiate_tgt, round_map, metrics, calls, returned, net, now, started, instances>>
other_vars == <<gen, arq, workflow>>

\* No call_zome_workflow has been started.
NoWorkflow ==
    [pc |-> "idle", is_root_zome_call |-> FALSE, coordinator_zome |-> FALSE,
     zome_call |-> "-", scratch_records |-> 0, record |-> 0, op_types |-> 0,
     outcome |-> "-", validation_result |-> "-", unlocked |-> FALSE,
     countersigning_op |-> FALSE, flush |-> "-", flushed_actions |-> 0,
     published |-> FALSE, integrated |-> FALSE, post_commit |-> FALSE,
     result |-> "-"]

\* The remote peers an instance knows: the other instance when both ends are
\* modelled, else the two remote certificates.
Peers(n) == IF instances = Node THEN Node \ {n} ELSE Cert \ {n}

\* ------------------------------------------------------------ wire messages
Initiate(arqs, id, agents) == [type |-> "Initiate", arq_bounds |-> arqs, tie_break |-> id, agents |-> agents]
Accept(arqs, agents) == [type |-> "Accept", arq_bounds |-> arqs, agents |-> agents]
AgentBloom(filter) == [type |-> "AgentBloom", filter |-> filter]
OpBloom(filter, is_final) == [type |-> "OpBloom", filter |-> filter, is_final |-> is_final]
OpRegions(region_set) == [type |-> "OpRegions", region_set |-> region_set]
AlreadyInProgress == [type |-> "AlreadyInProgress"]
NoAgents == [type |-> "NoAgents"]

\* EncodedTimedBloomFilter
NoOverlap == [kind |-> "NoOverlap"]
HaveHashes(filter, w) == [kind |-> "HaveHashes", filter |-> filter, time_window |-> w]
MissingAllHashes(w) == [kind |-> "MissingAllHashes", time_window |-> w]

\* ------------------------------------------------- bloom / region generator
\* calculate_time_range(): the default lookback window of a gossip loop.
DefaultWindow == [start |-> 0, end |-> MaxBatchCursor + 1]

\* encode_bloom_filter
encode_bloom_filter(bloom) == <<"encoded", bloom>>

\* What the op-hash query collaborator can return for a window:
\* bloom::Batch::Complete(blooms) or bloom::Batch::Partial { cursor, data },
\* each bloom a TimedBloomFilter { bloom: Option<filter>, time }.
TimedBlooms(window) == [time : {window}, bloom : {None, Some("ops")}]
BloomSeqs(window, max_blooms) == UNION {[1 .. k -> TimedBlooms(window)] : k \in 0 .. max_blooms}
BatchesWithin(window, max_blooms, max_cursor) ==
    [kind : {"Complete"}, cursor : {0}, data : BloomSeqs(window, max_blooms)]
        \cup [kind : {"Partial"}, cursor : 1 .. max_cursor, data : BloomSeqs(window, max_blooms)]
Batches(window) == BatchesWithin(window, MaxBlooms, MaxCursor)

\* RoundState::new, as called by new_state
new_state(remote_agent_list, common_arq_set, region_set, created) ==
    [ remote_agent_list |-> remote_agent_list,
      common_arq_set |-> common_arq_set,
      region_set |-> region_set,
      bloom_batch_cursor |-> None,
      expected_op_bloom_count |-> 0,
      regions_are_queued |-> FALSE,
      has_pending_historical_op_data |-> FALSE,
      created |-> created ]

\* Mutant of bloom_window: a saved cursor is not resumed from.
bloom_window_from_start(state) == DefaultWindow

\* The window next_bloom_batch queries for a state.
bloom_window(state) ==
    IF IsSome(state.bloom_batch_cursor)
        THEN [DefaultWindow EXCEPT !.start = Unwrap(state.bloom_batch_cursor)]
        ELSE DefaultWindow

\* Mutant of encode_timed_bloom: a present filter is not sent.
encode_timed_bloom_all_missing(bloom) == MissingAllHashes(bloom.time)

\* The encoded filter of one bloom of a batch.
encode_timed_bloom(bloom) ==
    IF IsSome(bloom.bloom)
        THEN HaveHashes(encode_bloom_filter(Unwrap(bloom.bloom)), bloom.time)
        ELSE MissingAllHashes(bloom.time)

\* state.increment_expected_op_blooms()
increment_expected_op_blooms(state) == [state EXCEPT !.expected_op_bloom_count = @ + 1]

\* The test of line 325 for the bloom at (zero-based) index i of len blooms.
is_final_bloom(i, len, cursor) == i = len - 1 /\ ~IsSome(cursor)

\* Mutant of encode_blooms: the blooms are pushed and not counted.
RECURSIVE encode_blooms_uncounted(_, _, _, _)
encode_blooms_uncounted(state, gossip, blooms, i) ==
    IF i >= Len(blooms)
        THEN [state |-> state, gossip |-> gossip]
        ELSE encode_blooms_uncounted(state,
                           Append(gossip, OpBloom(encode_timed_bloom(blooms[i + 1]),
                                                  is_final_bloom(i, Len(blooms), state.bloom_batch_cursor))),
                           blooms, i + 1)

\* The loop of lines 307-330 from index i on: every bloom is counted on the
\* state and pushed as an OpBloom.
RECURSIVE encode_blooms(_, _, _, _)
encode_blooms(state, gossip, blooms, i) ==
    IF i >= Len(blooms)
        THEN [state |-> state, gossip |-> gossip]
        ELSE encode_blooms(increment_expected_op_blooms(state),
                           Append(gossip, OpBloom(encode_timed_bloom(blooms[i + 1]),
                                                  is_final_bloom(i, Len(blooms), state.bloom_batch_cursor))),
                           blooms, i + 1)

\* next_bloom_batch, given the batch the op-hash query returned for
\* bloom_window(state): the new state and the extended message list.
next_bloom_batch(state, gossip, batch) ==
    LET taken == [state EXCEPT !.bloom_batch_cursor = None]
        saved == IF batch.kind = "Partial"
                    THEN [taken EXCEPT !.bloom_batch_cursor = Some(batch.cursor)]
                    ELSE taken
        blooms == batch.data
        g1 == IF blooms = <<>> THEN Append(gossip, OpBloom(NoOverlap, TRUE)) ELSE gossip
    IN encode_blooms(saved, g1, blooms, 0)

\* store::query_region_set: the region digests over the common coverage.
query_region_set(common_arqs) == [digest_of |-> common_arqs]

\* Mutant of mark_historical: no op data is pending.
mark_historical_not_pending(state) == [state EXCEPT !.regions_are_queued = FALSE]

\* The flags of a Historical round (lines 258-259).
mark_historical(state) ==
    [state EXCEPT !.has_pending_historical_op_data = TRUE, !.regions_are_queued = FALSE]

\* generate_blooms_or_regions, given what the collaborators returned:
\* the agent bloom and the op batch (both used by Recent only).
generate_blooms_or_regions(gtype, remote_agent_list, local_arqs, remote_arqs, gossip, agent_bloom, batch, created) ==
    LET common_arqs == ArqSetIntersection(local_arqs, remote_arqs)
        region_reply == query_region_set(common_arqs)
        region_set == IF gtype = "Historical" THEN Some(region_reply) ELSE None
        g1 == IF gtype = "Historical" THEN Append(gossip, OpRegions(region_reply)) ELSE gossip
        state == new_state(remote_agent_list, common_arqs, region_set, created)
    IN IF gtype = "Recent"
          THEN LET g2 == IF IsSome(agent_bloom)
                            THEN Append(g1, AgentBloom(encode_bloom_filter(Unwrap(agent_bloom))))
                            ELSE g1
               IN next_bloom_batch([state EXCEPT !.regions_are_queued = TRUE], g2, batch)
          ELSE [ state |-> mark_historical(state), gossip |-> g1 ]

\* The collaborator calls awaited by generate_blooms_or_regions, each of
\* which can fail.
Collaborators(gtype) ==
    IF gtype = "Historical"
        THEN {"get_topology", "query_region_set"}
        ELSE {"get_topology", "generate_agent_bloom", "generate_op_blooms_for_time_window"}

\* --------------------------------------------------------- shared state
\* Mutant of ShardedGossipTarget: the target does not keep the id sent.
ShardedGossipTarget_other_id(remote_agent_list, cert, tie_break, when_initiated) ==
    [ remote_agent_list |-> remote_agent_list,
      cert |-> cert,
      tie_break |-> 0,
      when_initiated |-> when_initiated,
      url |-> "url_" \o cert ]

\* ShardedGossipTarget
ShardedGossipTarget(remote_agent_list, cert, tie_break, when_initiated) ==
    [ remote_agent_list |-> remote_agent_list,
      cert |-> cert,
      tie_break |-> tie_break,
      when_initiated |-> when_initiated,
      url |-> "url_" \o cert ]

\* check_tgt_expired: a target whose when_initiated is older than the round
\* timeout is cleared.
check_tgt_expired(tgt, t) ==
    IF IsSome(tgt) /\ IsSome(Unwrap(tgt).when_initiated)
          /\ t - Unwrap(Unwrap(tgt).when_initiated) > RoundTimeout
        THEN None
        ELSE tgt

\* round_map.current_rounds(): drops the rounds that timed out.
current_rounds(rounds, t) ==
    [c \in Cert |-> IF IsSome(rounds[c]) /\ t - Unwrap(rounds[c]).created > RoundTimeout
                       THEN None ELSE rounds[c]]

\* Mutant of round_exists: the round map is not consulted.
round_exists_unchecked(rounds, cert) == FALSE

\* round_map.round_exists(cert)
round_exists(rounds, cert) == IsSome(rounds[cert])

\* Mutant of yields: a tie does not make us exit.
yields_only_above(our_id, remote_id) == our_id > remote_id

\* The tie-break of incoming_initiate: we exit when our id is not lower.
yields(our_id, remote_id) == our_id >= remote_id

\* The test of incoming_initiate's last closure: the accepted peer is not
\* our own outgoing target.
not_our_target(tgt, peer_cert) == ~IsSome(tgt) \/ Unwrap(tgt).cert # peer_cert

\* Mutant of insert_round: the new state is not stored.
insert_round_dropped(rounds, cert, state) == rounds

\* round_map.insert(peer_cert, state)
insert_round(rounds, cert, state) == [rounds EXCEPT ![cert] = Some(state)]

\* Mutant of target_present: the target is tested before it is expired.
target_present_before_expiry(tgt, checked) == IsSome(tgt)

\* has_target of try_initiate (lines 15-16): the target is tested after
\* check_tgt_expired has run on it.
target_present(tgt, checked) == IsSome(checked)

\* Mutant of nothing_to_do: the local agents are not looked at.
nothing_to_do_ignoring_agents(has_target, agents) == has_target

\* The early returns of try_initiate (lines 21-30): there is a target
\* already, or no local agent to gossip for.
nothing_to_do(has_target, agents) == has_target \/ agents = {}

\* metrics.update_current_round and metrics.record_accept
record_remote_round(m) == [m EXCEPT !.current_rounds = @ + 1, !.accepts = @ + 1]

\* ------------------------------------------------------------- the calls
Ok(val) == [kind |-> "Ok", val |-> val]
Err(why) == [kind |-> "Err", val |-> <<why>>]
Abandoned == [kind |-> "Abandoned", val |-> <<>>]
NoResult == [kind |-> "-", val |-> <<>>]

IdleCall ==
    [ op |-> "idle", pc |-> "idle", peer |-> "-", remote_id |-> 0,
      remote_agent_list |-> {}, local_agents |-> {}, same_as_target |-> None,
      state |-> None, gossip |-> <<>>, result |-> NoResult ]

\* What is kept of a call that returned: its arguments and its result.
Returned(call, result) ==
    [ op |-> call.op, peer |-> call.peer, remote_id |-> call.remote_id,
      same_as_target |-> call.same_as_target, result |-> result ]

\* A call starts in the first slot that runs no call, while the run may
\* start calls.
Free(n, s) ==
    /\ calls[n][s].pc = "idle"
    /\ \A r \in Slot : r < s => calls[n][r].pc # "idle"
    /\ started < (IF instances = Node THEN MaxPairCalls ELSE MaxCalls)

\* The call in slot s of instance n goes on as `call`.
SetCall(n, s, call) ==
    /\ calls' = [calls EXCEPT ![n][s] = call]
    /\ UNCHANGED returned

\* The call in slot s of instance n returns `result`.
Return(n, s, call, result) ==
    /\ calls' = [calls EXCEPT ![n][s] = IdleCall]
    /\ returned' = [returned EXCEPT ![n] = Returned(call, result)]

\* No arq operation has been applied.
NoArqCall == [op |-> "none", in |-> <<>>, out |-> <<>>]

\* No message generation is followed.
NoGeneration ==
    [ calls |-> 0, before |-> None, window |-> None, batch |-> None,
      state |-> None, appended |-> <<>> ]

Init ==
    /\ gossip_type \in {"Recent", "Historical"}
    /\ local_agents \in {la \in [Node -> SUBSET {AgentOf(n) : n \in Node}] :
                            la["B"] = {} /\ la["A"] \in {{}, {AgentOf("A")}}}
    /\ initiate_tgt = [n \in Node |-> None]
    /\ round_map = [n \in Node |-> [c \in Cert |-> None]]
    /\ metrics = [n \in Node |-> [current_rounds |-> 0, accepts |-> 0]]
    /\ calls = [n \in Node |-> [s \in Slot |-> IdleCall]]
    /\ returned = [n \in Node |-> Returned(IdleCall, NoResult)]
    /\ net = {}
    /\ now = 0
    /\ started = 0
    /\ instances = {"A"}
    /\ gen = NoGeneration
    /\ arq = NoArqCall
    /\ workflow = NoWorkflow

\* try_initiate, first closure (lines 14-30): expire the target and the
\* rounds, then return None if there is a target or no local agent.
try_initiate_check(n, s) ==
    /\ Free(n, s)
    /\ started' = started + 1
    /\ LET tgt == check_tgt_expired(initiate_tgt[n], now)
           has_target == target_present(initiate_tgt[n], tgt)
           call == [IdleCall EXCEPT !.op = "try_initiate"]
       IN /\ initiate_tgt' = [initiate_tgt EXCEPT ![n] = tgt]
          /\ round_map' = [round_map EXCEPT ![n] = current_rounds(round_map[n], now)]
          /\ IF nothing_to_do(has_target, local_agents[n])
                THEN Return(n, s, call, Ok(None))
                ELSE SetCall(n, s, [call EXCEPT !.pc = "find_remote_agent",
                                                !.local_agents = local_agents[n]])
    /\ UNCHANGED <<other_vars, instances, gossip_type, local_agents, metrics, net, now>>

\* try_initiate, from the return of find_remote_agent_within_arcset to the
\* end (lines 40-75): the query fails, finds nobody, or finds a node, which
\* becomes the target of an Initiate with a fresh random id.
try_initiate_find(n, s) ==
    /\ calls[n][s].pc = "find_remote_agent"
    /\ \/ /\ Return(n, s, calls[n][s], Err("find_remote_agent_within_arcset"))
          /\ UNCHANGED <<initiate_tgt, net>>
       \/ /\ Return(n, s, calls[n][s], Ok(None))
          /\ UNCHANGED <<initiate_tgt, net>>
       \/ \E cert \in Peers(n), id \in Ids :
            LET gossip == Initiate(LocalArqs(n), id, calls[n][s].local_agents)
                tgt == ShardedGossipTarget(DirectoryAgents(cert), cert, id, Some(now))
            IN /\ initiate_tgt' = [initiate_tgt EXCEPT ![n] = Some(tgt)]
               /\ net' = IF cert \in instances
                            THEN net \cup {[from |-> n, to |-> cert, msg |-> gossip]}
                            ELSE net
               /\ Return(n, s, [calls[n][s] EXCEPT !.peer = cert, !.remote_id = id],
                         Ok(Some([cert |-> cert, gossip |-> gossip])))
    /\ UNCHANGED <<other_vars, instances, gossip_type, local_agents, round_map, metrics, now, started>>

\* The Initiate messages that can reach instance n from a peer: those an
\* instance sent to it, and any Initiate of the external peer.
Incoming(n, peer) ==
    IF peer \in instances
        THEN {m.msg : m \in {x \in net : x.to = n /\ x.from = peer}}
        ELSE {Initiate(LocalArqs(peer), id, ExternalAgents(peer)) : id \in Ids}

\* Mutant of after_tie_break: the local agents are not looked at.
after_tie_break_unchecked(n, s, call) ==
    SetCall(n, s, [call EXCEPT !.pc = "generate_blooms_or_regions"])

\* incoming_initiate after the tie-break (lines 124-151): NoAgents without
\* a local agent, else the Accept is prepared and the queries are awaited.
after_tie_break(n, s, call) ==
    IF call.local_agents = {}
        THEN Return(n, s, call, Ok(<<NoAgents>>))
        ELSE SetCall(n, s, [call EXCEPT !.pc = "generate_blooms_or_regions"])

\* incoming_initiate, first closure and the decisions on what it read
\* (lines 88-116).
incoming_initiate_check(n, s, peer_cert) ==
    /\ Free(n, s)
    /\ started' = started + 1
    /\ \E msg \in Incoming(n, peer_cert) :
        LET already_in_progress == round_exists(round_map[n], peer_cert)
            same_as_target ==
                IF IsSome(initiate_tgt[n]) /\ Unwrap(initiate_tgt[n]).cert = peer_cert
                    THEN Some(Unwrap(initiate_tgt[n]).tie_break)
                    ELSE None
            call == [IdleCall EXCEPT !.op = "incoming_initiate",
                                     !.peer = peer_cert,
                                     !.remote_id = msg.tie_break,
                                     !.remote_agent_list = msg.agents,
                                     !.local_agents = local_agents[n],
                                     !.same_as_target = same_as_target]
        IN /\ net' = net \ {[from |-> peer_cert, to |-> n, msg |-> msg]}
           /\ IF already_in_progress
                 THEN Return(n, s, call, Ok(<<AlreadyInProgress>>))
                 ELSE IF IsSome(same_as_target)
                         THEN IF yields(Unwrap(same_as_target), msg.tie_break)
                                 THEN Return(n, s, call, Ok(<<>>))
                                 ELSE SetCall(n, s, [call EXCEPT !.pc = "clear_tgt"])
                         ELSE after_tie_break(n, s, call)
    /\ UNCHANGED <<other_vars, instances, gossip_type, local_agents, initiate_tgt, round_map, metrics, now>>

\* incoming_initiate, second closure (lines 117-128): we have the lower id,
\* our own target is abandoned.
incoming_initiate_clear_tgt(n, s) ==
    /\ calls[n][s].pc = "clear_tgt"
    /\ initiate_tgt' = [initiate_tgt EXCEPT ![n] = None]
    /\ after_tie_break(n, s, calls[n][s])
    /\ UNCHANGED <<other_vars, instances, gossip_type, local_agents, round_map, metrics, net, now, started>>

\* incoming_initiate, the await of generate_blooms_or_regions (lines
\* 130-151): a collaborator fails, or the new state and the messages are
\* there.
incoming_initiate_generate(n, s) ==
    /\ calls[n][s].pc = "generate_blooms_or_regions"
    /\ LET call == calls[n][s]
           gossip == <<Accept(LocalArqs(n), call.local_agents)>>
       IN \/ \E c \in Collaborators(gossip_type) : Return(n, s, call, Err(c))
          \/ \E agent_bloom \in IF gossip_type = "Recent" THEN {None, Some("agents")} ELSE {None},
                batch \in IF gossip_type = "Recent"
                             THEN Batches(DefaultWindow)
                             ELSE {[kind |-> "Complete", cursor |-> 0, data |-> <<>>]} :
                LET r == generate_blooms_or_regions(gossip_type, call.remote_agent_list,
                                                    LocalArqs(n), LocalArqs(call.peer),
                                                    gossip, agent_bloom, batch, now)
                IN SetCall(n, s, [call EXCEPT !.pc = "register",
                                              !.state = Some(r.state),
                                              !.gossip = r.gossip])
    /\ UNCHANGED <<other_vars, instances, gossip_type, local_agents, initiate_tgt, round_map, metrics, net, now, started>>

\* Mutant of incoming_initiate_register: the timeout of our own target
\* stays armed.
incoming_initiate_register_armed(n, s) ==
    /\ calls[n][s].pc = "register"
    /\ LET call == calls[n][s]
           tgt == initiate_tgt[n]
       IN /\ metrics' = IF not_our_target(tgt, call.peer)
                           THEN [metrics EXCEPT ![n] = record_remote_round(@)]
                           ELSE metrics
          /\ round_map' = [round_map EXCEPT ![n] = insert_round(@, call.peer, Unwrap(call.state))]
          /\ initiate_tgt' =
                IF IsSome(tgt) /\ Unwrap(tgt).cert = call.peer
                    THEN [initiate_tgt EXCEPT ![n] =
                            Some([Unwrap(tgt) EXCEPT !.remote_agent_list = call.remote_agent_list])]
                    ELSE initiate_tgt
          /\ Return(n, s, call, Ok(call.gossip))
    /\ UNCHANGED <<other_vars, instances, gossip_type, local_agents, net, now, started>>

\* incoming_initiate, last closure (lines 153-181): record the metrics of a
\* remote round, register the round, disarm the timeout of our own target.
incoming_initiate_register(n, s) ==
    /\ calls[n][s].pc = "register"
    /\ LET call == calls[n][s]
           tgt == initiate_tgt[n]
       IN /\ metrics' = IF not_our_target(tgt, call.peer)
                           THEN [metrics EXCEPT ![n] = record_remote_round(@)]
                           ELSE metrics
          /\ round_map' = [round_map EXCEPT ![n] = insert_round(@, call.peer, Unwrap(call.state))]
          /\ initiate_tgt' =
                IF IsSome(tgt) /\ Unwrap(tgt).cert = call.peer
                    THEN [initiate_tgt EXCEPT ![n] =
                            Some([Unwrap(tgt) EXCEPT !.when_initiated = None,
                                                     !.remote_agent_list = call.remote_agent_list])]
                    ELSE initiate_tgt
          /\ Return(n, s, call, Ok(call.gossip))
    /\ UNCHANGED <<other_vars, instances, gossip_type, local_agents, net, now, started>>

\* The caller drops the future of a call that is suspended at an await.
abandon(n, s) ==
    /\ calls[n][s].pc \in {"find_remote_agent", "generate_blooms_or_regions"}
    /\ Return(n, s, calls[n][s], Abandoned)
    /\ UNCHANGED <<other_vars, instances, gossip_type, local_agents, initiate_tgt, round_map, metrics, net, now, started>>

\* A local agent leaves the space, or joins it.
local_agent_leave(n) ==
    /\ local_agents[n] # {}
    /\ local_agents' = [local_agents EXCEPT ![n] = {}]
    /\ UNCHANGED <<other_vars, instances, gossip_type, initiate_tgt, round_map, metrics, calls, returned, net, now, started>>

local_agent_join(n) ==
    /\ local_agents[n] = {}
    /\ local_agents' = [local_agents EXCEPT ![n] = {AgentOf(n)}]
    /\ UNCHANGED <<other_vars, instances, gossip_type, initiate_tgt, round_map, metrics, calls, returned, net, now, started>>

\* Time passes.
tick ==
    /\ now < MaxTime
    /\ now' = now + 1
    /\ UNCHANGED <<other_vars, instances, gossip_type, local_agents, initiate_tgt, round_map, metrics, calls, returned, net, started>>

Next ==
    \/ \E n \in instances, s \in Slot : try_initiate_check(n, s)
    \/ \E n \in instances, s \in Slot : try_initiate_find(n, s)
    \/ \E n \in instances, s \in Slot : \E peer \in Peers(n) : incoming_initiate_check(n, s, peer)
    \/ \E n \in instances, s \in Slot : incoming_initiate_clear_tgt(n, s)
    \/ \E n \in instances, s \in Slot : incoming_initiate_generate(n, s)
    \/ \E n \in instances, s \in Slot : incoming_initiate_register(n, s)
    \/ \E n \in instances, s \in Slot : abandon(n, s)
    \/ \E n \in instances : local_agent_leave(n)
    \/ \E n \in instances : local_agent_join(n)
    \/ tick

Spec == Init /\ [][Next]_vars

\* Both ends of the handshake are instances of the code.
InitPair ==
    /\ gossip_type \in {"Recent", "Historical"}
    /\ local_agents \in {la \in [Node -> SUBSET {AgentOf(n) : n \in Node}] :
                            \A n \in Node : la[n] \in {{}, {AgentOf(n)}}}
    /\ initiate_tgt = [n \in Node |-> None]
    /\ round_map = [n \in Node |-> [c \in Cert |-> None]]
    /\ metrics = [n \in Node |-> [current_rounds |-> 0, accepts |-> 0]]
    /\ calls = [n \in Node |-> [s \in Slot |-> IdleCall]]
    /\ returned = [n \in Node |-> Returned(IdleCall, NoResult)]
    /\ net = {}
    /\ now = 0
    /\ started = 0
    /\ instances = Node
    /\ gen = NoGeneration
    /\ arq = NoArqCall
    /\ workflow = NoWorkflow

SpecPair == InitPair /\ [][Next]_vars

\* ------------------------------------------------- the generator alone
\* One round of instance A with peer B, followed through its message
\* generation only: the handshake stands still.
InitGen ==
    /\ gossip_type \in {"Recent", "Historical"}
    /\ local_agents = [n \in Node |-> {}]
    /\ initiate_tgt = [n \in Node |-> None]
    /\ round_map = [n \in Node |-> [c \in Cert |-> None]]
    /\ metrics = [n \in Node |-> [current_rounds |-> 0, accepts |-> 0]]
    /\ calls = [n \in Node |-> [s \in Slot |-> IdleCall]]
    /\ returned = [n \in Node |-> Returned(IdleCall, NoResult)]
    /\ net = {}
    /\ now = 0
    /\ started = 0
    /\ instances = {}
    /\ gen = NoGeneration
    /\ arq = NoArqCall
    /\ workflow = NoWorkflow

\* generate_blooms_or_regions returns for the new round (lines 199-262):
\* for Recent its messages end with those of the first next_bloom_batch.
generate_blooms_or_regions_returns ==
    /\ gen.calls = 0
    /\ \E agent_bloom \in IF gossip_type = "Recent" THEN {None, Some("agents")} ELSE {None},
          batch \in IF gossip_type = "Recent"
                       THEN BatchesWithin(DefaultWindow, MaxBatchBlooms, MaxBatchCursor)
                       ELSE {[kind |-> "Complete", cursor |-> 0, data |-> <<>>]} :
        LET gossip == <<Accept(LocalArqs("A"), {AgentOf("A")})>>
            r == generate_blooms_or_regions(gossip_type, ExternalAgents("B"),
                                            LocalArqs("A"), LocalArqs("B"),
                                            gossip, agent_bloom, batch, now)
            fresh == new_state(ExternalAgents("B"),
                               ArqSetIntersection(LocalArqs("A"), LocalArqs("B")), None, now)
        IN gen' = [ calls |-> 1,
                    before |-> Some(fresh),
                    window |-> IF gossip_type = "Recent" THEN Some(DefaultWindow) ELSE None,
                    batch |-> IF gossip_type = "Recent" THEN Some(batch) ELSE None,
                    state |-> Some(r.state),
                    appended |-> SubSeq(r.gossip, 2, Len(r.gossip)) ]
    /\ UNCHANGED <<gossip_type, handshake_vars, arq, workflow>>

\* A later next_bloom_batch call on the round returns (lines 270-333).
next_bloom_batch_returns ==
    /\ gossip_type = "Recent"
    /\ gen.calls \in 1 .. MaxBatchCalls - 1
    /\ LET state == Unwrap(gen.state)
           window == bloom_window(state)
       IN \E batch \in BatchesWithin(window, MaxBatchBlooms, MaxBatchCursor) :
            LET r == next_bloom_batch(state, <<>>, batch)
            IN gen' = [ calls |-> gen.calls + 1,
                        before |-> Some(state),
                        window |-> Some(window),
                        batch |-> Some(batch),
                        state |-> Some(r.state),
                        appended |-> r.gossip ]
    /\ UNCHANGED <<gossip_type, handshake_vars, arq, workflow>>

NextGen ==
    \/ generate_blooms_or_regions_returns
    \/ next_bloom_batch_returns

SpecGen == InitGen /\ [][NextGen]_vars

\* ------------------------------------------------------- the arq algebra
\* The ring has 2^Bits locations and its integers are Bits wide (u32 in the
\* code, where Bits is 32).
Word == 0 .. 2^Bits - 1
Powers == 0 .. Bits - 1
QuantumPowers == 0 .. MaxQuantumPower

\* pow2: 2u32.pow(p.min(31))
pow2(p) == 2^(IF p < Bits - 1 THEN p ELSE Bits - 1)

\* u8::saturating_sub
saturating_sub(a, b) == IF a > b THEN a - b ELSE 0

\* Mutant of is_full: power 0 is treated like the other powers.
is_full_at_any_power(quantum_power, power, count) ==
    IF power >= Bits
        THEN TRUE
        ELSE count >= pow2(saturating_sub(saturating_sub(Bits, quantum_power), power))

\* is_full(dim, power, count), for a topology with the given quantum_power
is_full(quantum_power, power, count) ==
    LET max == saturating_sub(Bits, quantum_power)
    IN IF power = 0
          THEN FALSE
          ELSE IF power >= Bits
                  THEN TRUE
                  ELSE count >= pow2(saturating_sub(max, power))

\* Arq<S>: start_kind tells the start representation, "Loc" (ArqLocated)
\* or "Offset" (ArqBounds).
Arq(start_kind, start, power, count) ==
    [start_kind |-> start_kind, start |-> start, power |-> power, count |-> count]
Arqs == [start_kind : {"Loc", "Offset"}, start : Word, power : Powers, count : Word]

\* The outcomes of an operation returning Option<Arq>: Some(arq), None,
\* or a panic of the thread.
SomeArq(a) == [kind |-> "Some", arq |-> <<a>>]
NoArq == [kind |-> "None", arq |-> <<>>]
Panic == [kind |-> "Panic", arq |-> <<>>]

\* A product of two u32: with overflow checks (debug builds) an overflow
\* panics, without them (release builds) it wraps. None stands for the
\* panic.
u32_mul(a, b, overflow_checks) ==
    IF a * b < 2^Bits
        THEN Some(a * b)
        ELSE IF overflow_checks THEN None ELSE Some((a * b) % 2^Bits)

\* 2u32.pow(e): overflows from e = 32 on.
u32_pow2(e, overflow_checks) ==
    IF e < Bits THEN Some(2^e) ELSE IF overflow_checks THEN None ELSE Some(0)

\* Mutant of requantize_up: an offset is divided without the test.
requantize_up_rounding(start_kind, start, factor) ==
    IF start_kind = "Loc" THEN Some(start) ELSE Some(start \div factor)

\* ArqStart::requantize_up, for Loc and for SpaceOffset; the factor is not
\* zero.
requantize_up(start_kind, start, factor) ==
    IF start_kind = "Loc"
        THEN Some(start)
        ELSE IF start % factor = 0 THEN Some(start \div factor) ELSE None

\* ArqStart::requantize_down, for Loc and for SpaceOffset; None stands for
\* the panic of an overflow.
requantize_down(start_kind, start, factor, overflow_checks) ==
    IF start_kind = "Loc" THEN Some(start) ELSE u32_mul(start, factor, overflow_checks)

\* Arq::requantize(new_power), in a build with or without overflow checks.
requantize(a, new_power, overflow_checks) ==
    LET old_power == a.power
        old_count == a.count
    IN IF old_power < new_power
          THEN LET factor == u32_pow2(new_power - old_power, overflow_checks)
               IN IF ~IsSome(factor) \/ Unwrap(factor) = 0
                     THEN Panic   \* overflow of pow, or division by a zero factor
                     ELSE LET start == requantize_up(a.start_kind, a.start, Unwrap(factor))
                              new_count == old_count \div Unwrap(factor)
                          IN IF IsSome(start) /\ old_count = new_count * Unwrap(factor)
                                THEN SomeArq(Arq(a.start_kind, Unwrap(start), new_power, new_count))
                                ELSE NoArq
          ELSE LET factor == u32_pow2(old_power - new_power, overflow_checks)
               IN IF ~IsSome(factor)
                     THEN Panic
                     ELSE LET new_count == u32_mul(old_count, Unwrap(factor), overflow_checks)
                              start == requantize_down(a.start_kind, a.start, Unwrap(factor), overflow_checks)
                          IN IF IsSome(new_count) /\ IsSome(start)
                                THEN SomeArq(Arq(a.start_kind, Unwrap(start), new_power, Unwrap(new_count)))
                                ELSE Panic

\* No handshake and no message generation run while the arq algebra is
\* exercised.
InitArq ==
    /\ gossip_type = "Recent"
    /\ local_agents = [n \in Node |-> {}]
    /\ initiate_tgt = [n \in Node |-> None]
    /\ round_map = [n \in Node |-> [c \in Cert |-> None]]
    /\ metrics = [n \in Node |-> [current_rounds |-> 0, accepts |-> 0]]
    /\ calls = [n \in Node |-> [s \in Slot |-> IdleCall]]
    /\ returned = [n \in Node |-> Returned(IdleCall, NoResult)]
    /\ net = {}
    /\ now = 0
    /\ started = 0
    /\ instances = {}
    /\ gen = NoGeneration
    /\ arq = NoArqCall
    /\ workflow = NoWorkflow

\* is_full is applied to a topology, a power and a count.
is_full_call ==
    /\ arq.op = "none"
    /\ \E quantum_power \in QuantumPowers, power \in 0 .. Bits, count \in Word :
        arq' = [ op |-> "is_full",
                 in |-> [quantum_power |-> quantum_power, power |-> power, count |-> count],
                 out |-> is_full(quantum_power, power, count) ]
    /\ UNCHANGED <<gossip_type, handshake_vars, gen, workflow>>

\* requantize is applied to an arq and a new power.
requantize_call ==
    /\ arq.op = "none"
    /\ \E a \in Arqs, new_power \in 0 .. Bits, overflow_checks \in BOOLEAN :
        arq' = [ op |-> "requantize",
                 in |-> [a |-> a, new_power |-> new_power, overflow_checks |-> overflow_checks],
                 out |-> requantize(a, new_power, overflow_checks) ]
    /\ UNCHANGED <<gossip_type, handshake_vars, gen, workflow>>

\* The arq a requantize returned is requantized back to the power of the
\* arq it came from.
requantize_back ==
    /\ arq.op = "requantize"
    /\ arq.out.kind = "Some"
    /\ arq' = [ op |-> "requantize_back",
                in |-> [arq.in EXCEPT !.new_power = arq.in.a.power] @@ [b |-> Unwrap(arq.out.arq),
                                                                         power |-> arq.in.new_power],
                out |-> requantize(Unwrap(arq.out.arq), arq.in.a.power, arq.in.overflow_checks) ]
    /\ UNCHANGED <<gossip_type, handshake_vars, gen, workflow>>

NextArq ==
    \/ is_full_call
    \/ requantize_call
    \/ requantize_back

SpecArq == InitArq /\ [][NextArq]_vars

\* ------------------------------------------- arqs in a topology: fitting
\* A topology is given by its quantum_power; its quantum is 2^quantum_power.
quantum(quantum_power) == 2^quantum_power

\* u32::MAX
WordMax == 2^Bits - 1

\* The smaller of two numbers.
Min(x, y) == IF x <= y THEN x ELSE y

\* The arqs whose chunks are narrower than the ring in a topology.
TopoArqs(quantum_power) == {a \in Arqs : a.power + quantum_power < Bits}

\* SpaceOffset's sum, on the ring.
offset_add(a, b) == (a + b) % 2^Bits

\* Mutant of absolute_chunk_width: saturated but not clamped to half.
absolute_chunk_width_unclamped(a, quantum_power) ==
    Min(pow2(a.power) * quantum(quantum_power), WordMax)

\* Arq::absolute_chunk_width, and its debug assertion
absolute_chunk_width(a, quantum_power) ==
    Min(Min(pow2(a.power) * quantum(quantum_power), WordMax), WordMax \div 2)
chunk_width_expected(a, quantum_power) ==
    absolute_chunk_width(a, quantum_power) <= WordMax \div 4 + 2

\* The width of the chunks of a power, as SpaceOffset converts with it.
chunk_size(quantum_power, power) == quantum(quantum_power) * 2^power

\* ArqStart::to_offset: SpaceOffset::from_absolute_rounded for a Loc.
to_offset(start_kind, start, quantum_power, power) ==
    IF start_kind = "Loc" THEN start \div chunk_size(quantum_power, power) ELSE start

\* SpaceOffset::to_loc: the offset times the chunk width, on the ring.
to_loc(offset, quantum_power, power) == (offset * chunk_size(quantum_power, power)) % 2^Bits

\* Mutant of to_edge_locs: the right edge is the first location after.
to_edge_locs_open(a, quantum_power) ==
    LET start == to_offset(a.start_kind, a.start, quantum_power, a.power)
    IN [left |-> to_loc(start, quantum_power, a.power),
        right |-> to_loc(offset_add(start, a.count), quantum_power, a.power)]

\* Arq::to_edge_locs
to_edge_locs(a, quantum_power) ==
    LET start == to_offset(a.start_kind, a.start, quantum_power, a.power)
    IN [left |-> to_loc(start, quantum_power, a.power),
        right |-> (to_loc(offset_add(start, a.count), quantum_power, a.power) + 2^Bits - 1) % 2^Bits]

\* DhtArcRange: Empty, Full, or Bounded(lo, hi) running from lo up to hi
\* around the ring.
Empty == [kind |-> "Empty", lo |-> 0, hi |-> 0]
Full == [kind |-> "Full", lo |-> 0, hi |-> 0]
Bounded(lo, hi) == [kind |-> "Bounded", lo |-> lo, hi |-> hi]

\* DhtArcRange::from_bounds: bounds that go all around the ring are Full.
from_bounds(lo, hi) == IF lo = (hi + 1) % 2^Bits THEN Full ELSE Bounded(lo, hi)

\* DhtArcRange::length
range_length(range) ==
    CASE range.kind = "Empty" -> 0
      [] range.kind = "Full" -> 2^Bits
      [] OTHER -> ((range.hi + 2^Bits - range.lo) % 2^Bits) + 1

\* Arq::to_dht_arc_range
to_dht_arc_range(a, quantum_power) ==
    IF is_full(quantum_power, a.power, a.count)
        THEN Full
        ELSE IF a.count = 0
                THEN Empty
                ELSE LET edges == to_edge_locs(a, quantum_power)
                     IN from_bounds(edges.left, edges.right)

\* Arq::absolute_length. With debug assertions (None stands for a panic)
\* the chunk width is checked against its bound and the length against
\* the length of the arc range.
absolute_length(a, quantum_power, debug) ==
    LET len == Min(absolute_chunk_width(a, quantum_power) * a.count, 2^Bits)
    IN IF debug /\ (\/ ~chunk_width_expected(a, quantum_power)
                    \/ range_length(to_dht_arc_range(a, quantum_power)) # len)
          THEN None
          ELSE Some(len)

\* to_edge_locs and absolute_length are applied to an arq in a topology.
to_edge_locs_call ==
    /\ arq.op = "none"
    /\ \E quantum_power \in QuantumPowers, debug \in BOOLEAN :
         \E a \in TopoArqs(quantum_power) :
            arq' = [ op |-> "to_edge_locs",
                     in |-> [a |-> a, quantum_power |-> quantum_power, debug |-> debug],
                     out |-> [edges |-> to_edge_locs(a, quantum_power),
                              length |-> absolute_length(a, quantum_power, debug)] ]
    /\ UNCHANGED <<gossip_type, handshake_vars, gen, workflow>>

\* The powers of a topology: those at which the chunk width is within the
\* bound that absolute_chunk_width asserts.
TopoPowers(quantum_power) ==
    {p \in Powers : chunk_width_expected([power |-> p], quantum_power)}

\* Mutant of to_bounds: the start is the position within the chunk.
to_bounds_remainder(a, quantum_power) ==
    Arq("Offset", a.start % absolute_chunk_width(a, quantum_power), a.power, a.count)

\* Mutant of to_bounds: the start is the nearest chunk boundary.
to_bounds_nearest(a, quantum_power) ==
    Arq("Offset",
        (a.start + absolute_chunk_width(a, quantum_power) \div 2) \div absolute_chunk_width(a, quantum_power),
        a.power, a.count)

\* Arq::to_bounds
to_bounds(a, quantum_power) ==
    Arq("Offset", a.start \div absolute_chunk_width(a, quantum_power), a.power, a.count)

\* The left edge of bounds, as to_edge_locs computes it.
left_edge(b, quantum_power) ==
    to_loc(to_offset(b.start_kind, b.start, quantum_power, b.power), quantum_power, b.power)

\* The lists of at most MaxCenters centerpoints, sorted ascending.
SortedCenters ==
    UNION { {c \in [1 .. n -> Word] : \A i \in 1 .. n - 1 : c[i] <= c[i + 1]} : n \in 0 .. MaxCenters }

\* Arqs of one power and count at sorted centerpoints are converted to
\* bounds.
to_bounds_call ==
    /\ arq.op = "none"
    /\ \E quantum_power \in QuantumPowers, count \in 0 .. MaxCenterCount, centers \in SortedCenters :
         \E power \in TopoPowers(quantum_power) :
            arq' = [ op |-> "to_bounds",
                     in |-> [quantum_power |-> quantum_power, power |-> power,
                             count |-> count, centers |-> centers],
                     out |-> [i \in 1 .. Len(centers) |->
                                 to_bounds(Arq("Loc", centers[i], power, count), quantum_power)] ]
    /\ UNCHANGED <<gossip_type, handshake_vars, gen, workflow>>

\* The canonical arc ranges: a Bounded range does not go all around the
\* ring (from_bounds makes that Full).
ArcRanges ==
    {Empty, Full} \cup {r \in {Bounded(lo, hi) : lo \in Word, hi \in Word} : (r.hi + 1) % 2^Bits # r.lo}

\* Results of from_interval_inner: Some((bounds, flag)), None, or a panic.
SomeBounds(b, flag) == [kind |-> "Some", arq |-> <<b>>, flag |-> flag]
NoBounds == [kind |-> "None", arq |-> <<>>, flag |-> FALSE]
PanicBounds == [kind |-> "Panic", arq |-> <<>>, flag |-> FALSE]

\* Mutant of from_interval_inner: no unit of slack in the length.
from_interval_inner_strict(quantum_power, power, interval, always_round) ==
    CASE interval.kind = "Empty" -> SomeBounds(Arq("Offset", 0, power, 0), FALSE)
      [] interval.kind = "Full" ->
            IF power > 0
                THEN SomeBounds(Arq("Offset", 0, power, 2^(Bits - power - quantum_power)), FALSE)
                ELSE PanicBounds
      [] OTHER ->
            LET lo == interval.lo
                hi == interval.hi
                s == 2^power * quantum(quantum_power)
                offset == lo \div s
                len == IF lo <= hi THEN hi - lo + 1 ELSE (2^Bits - lo + hi + 1) % 2^Bits
                count == len \div s
                rem == len % s
                lossless == lo = offset * s /\ rem = 0
            IN IF always_round \/ lossless
                  THEN SomeBounds(Arq("Offset", offset, power, count), ~lossless)
                  ELSE NoBounds

\* Mutant of from_interval_inner: the length of a range is taken as if it
\* did not wrap around the end of the ring.
from_interval_inner_unwrapped(quantum_power, power, interval, always_round) ==
    CASE interval.kind = "Empty" -> SomeBounds(Arq("Offset", 0, power, 0), FALSE)
      [] interval.kind = "Full" ->
            IF power > 0
                THEN SomeBounds(Arq("Offset", 0, power, 2^(Bits - power - quantum_power)), FALSE)
                ELSE PanicBounds
      [] OTHER ->
            LET lo == interval.lo
                hi == interval.hi
                s == 2^power * quantum(quantum_power)
                offset == lo \div s
                len == IF lo <= hi THEN hi - lo + 1 ELSE lo - hi + 1
                count == len \div s
                rem == len % s
                diff == Min(rem, s - rem)
                lossless == lo = offset * s /\ diff <= 1
            IN IF always_round \/ lossless
                  THEN SomeBounds(Arq("Offset", offset, power, count), ~lossless)
                  ELSE NoBounds

\* ArqBounds::from_interval_inner
from_interval_inner(quantum_power, power, interval, always_round) ==
    CASE interval.kind = "Empty" -> SomeBounds(Arq("Offset", 0, power, 0), FALSE)
      [] interval.kind = "Full" ->
            IF power > 0
                THEN SomeBounds(Arq("Offset", 0, power, 2^(Bits - power - quantum_power)), FALSE)
                ELSE PanicBounds
      [] OTHER ->
            LET lo == interval.lo
                hi == interval.hi
                s == 2^power * quantum(quantum_power)
                offset == lo \div s
                len == IF lo <= hi THEN hi - lo + 1 ELSE (2^Bits - lo + hi + 1) % 2^Bits
                count == len \div s
                rem == len % s
                diff == Min(rem, s - rem)
                lossless == lo = offset * s /\ diff <= 1
            IN IF always_round \/ lossless
                  THEN SomeBounds(Arq("Offset", offset, power, count), ~lossless)
                  ELSE NoBounds

\* ArqBounds::from_interval_rounded: the unwrap panics on None.
from_interval_rounded(quantum_power, power, interval) ==
    LET inner == from_interval_inner(quantum_power, power, interval, TRUE)
    IN IF inner.kind = "None" THEN PanicBounds ELSE inner

\* ArqBounds::from_interval: the bounds without the flag.
from_interval(quantum_power, power, interval) ==
    [from_interval_inner(quantum_power, power, interval, FALSE) EXCEPT !.flag = FALSE]

\* from_interval and from_interval_rounded are applied to an arc range.
from_interval_call ==
    /\ arq.op = "none"
    /\ \E quantum_power \in QuantumPowers, interval \in ArcRanges :
         \E power \in TopoPowers(quantum_power) :
            arq' = [ op |-> "from_interval",
                     in |-> [quantum_power |-> quantum_power, power |-> power, interval |-> interval],
                     out |-> [exact |-> from_interval(quantum_power, power, interval),
                              rounded |-> from_interval_rounded(quantum_power, power, interval)] ]
    /\ UNCHANGED <<gossip_type, handshake_vars, gen, workflow>>

\* The lengths of arcs: up to the whole ring.
Lengths == 0 .. 2^Bits

\* An ArqSize, and the results of a fit: Some(size), None, a panic, or a
\* loop that never ends.
ArqSize(power, count) == [power |-> power, count |-> count]
SomeSize(size) == [kind |-> "Some", size |-> <<size>>]
NoSize == [kind |-> "None", size |-> <<>>]
PanicSize == [kind |-> "Panic", size |-> <<>>]
Diverges == [kind |-> "Diverges", size |-> <<>>]

\* The f64 count after `halvings` divisions by 2.0, rounded: f64::round
\* rounds a half away from zero, and the divisions are exact in an f64.
rounded(n, halvings) ==
    IF halvings = 0 THEN n ELSE (n + 2^(halvings - 1)) \div 2^halvings

\* Mutant of halve_until_fits: halves also a count equal to the maximum.
RECURSIVE halve_until_below(_, _, _)
halve_until_below(n, power, max_chunks) ==
    IF rounded(n, power) >= max_chunks /\ rounded(n, power) > 0
        THEN halve_until_below(n, power + 1, max_chunks)
        ELSE ArqSize(power, rounded(n, power))

\* The loop of power_and_count_from_length.
RECURSIVE halve_until_fits(_, _, _)
halve_until_fits(n, power, max_chunks) ==
    IF rounded(n, power) > max_chunks
        THEN halve_until_fits(n, power + 1, max_chunks)
        ELSE ArqSize(power, rounded(n, power))

\* power_and_count_from_length
power_and_count_from_length(quantum_power, len, max_chunks) ==
    halve_until_fits(len \div quantum(quantum_power), 0, max_chunks)

\* power_and_count_from_length is applied to a length.
power_and_count_from_length_call ==
    /\ arq.op = "none"
    /\ \E quantum_power \in QuantumPowers, len \in Lengths, max_chunks \in 1 .. 2 * MaxMinChunks :
         arq' = [ op |-> "power_and_count_from_length",
                  in |-> [quantum_power |-> quantum_power, len |-> len, max_chunks |-> max_chunks],
                  out |-> power_and_count_from_length(quantum_power, len, max_chunks) ]
    /\ UNCHANGED <<gossip_type, handshake_vars, gen, workflow>>

\* u64::trailing_zeros of a length; the u64 is scaled to 2 * Bits bits.
trailing_zeros(len) ==
    IF len = 0
        THEN 2 * Bits
        ELSE CHOOSE z \in 0 .. Bits : len % 2^z = 0 /\ (len \div 2^z) % 2 = 1

\* The loop of power_and_count_from_length_exact: the count doubles and the
\* power steps down until the count is min_chunks. A count of 0 never gets
\* there; a step down from power 0 overflows the u8, which panics with
\* overflow checks and wraps without them.
RECURSIVE normalize(_, _, _, _)
normalize(power, count, min_chunks, overflow_checks) ==
    IF count >= min_chunks
        THEN SomeSize(ArqSize(power, count))
        ELSE IF count = 0
                THEN Diverges
                ELSE IF power = 0
                        THEN IF overflow_checks
                                THEN PanicSize
                                ELSE normalize(U8Len - 1, count * 2, min_chunks, overflow_checks)
                        ELSE normalize(power - 1, count * 2, min_chunks, overflow_checks)

\* power_and_count_from_length_exact. The shift of a length of 0 by all
\* the bits of the u64 panics with overflow checks and shifts by 0 without.
power_and_count_from_length_exact(quantum_power, len, min_chunks, overflow_checks) ==
    LET z == trailing_zeros(len)
    IN IF z < quantum_power
          THEN NoSize
          ELSE IF len = 0 /\ overflow_checks
                  THEN PanicSize
                  ELSE normalize(z - quantum_power, IF len = 0 THEN 0 ELSE len \div 2^z,
                                 min_chunks, overflow_checks)

\* power_and_count_from_length_exact is applied to a length.
power_and_count_from_length_exact_call ==
    /\ arq.op = "none"
    /\ \E quantum_power \in QuantumPowers, len \in Lengths, min_chunks \in 0 .. MaxMinChunks, overflow_checks \in BOOLEAN :
         arq' = [ op |-> "power_and_count_from_length_exact",
                  in |-> [quantum_power |-> quantum_power, len |-> len, min_chunks |-> min_chunks,
                          overflow_checks |-> overflow_checks],
                  out |-> power_and_count_from_length_exact(quantum_power, len, min_chunks, overflow_checks) ]
    /\ UNCHANGED <<gossip_type, handshake_vars, gen, workflow>>

\* The sizing strategies of a topology: max_chunks is twice min_chunks, and
\* max_chunks chunks of power 0 are shorter than the ring.
Strats(quantum_power) ==
    {s \in {[min_chunks |-> m, max_chunks |-> 2 * m] : m \in 2 .. MaxMinChunks} :
        s.max_chunks * quantum(quantum_power) < 2^Bits}

\* The minimum power of a topology.
MinPowers == 0 .. 1

\* The debug assertions of approximate_arq on the fitted size.
fit_expected(size, quantum_power, strat) ==
    /\ size.power = 0 \/ size.count >= strat.min_chunks
    /\ size.power = 0 \/ size.count <= strat.max_chunks
    /\ size.count = 0 \/ size.count - 1 <= WordMax \div quantum(quantum_power)

\* Mutant of approximate_arq: fits to min_chunks.
approximate_arq_to_min(quantum_power, min_power, strat, start, len, debug) ==
    IF len = 0
        THEN SomeArq(Arq("Loc", start, min_power, 0))
        ELSE LET size == power_and_count_from_length(quantum_power, len, strat.min_chunks)
             IN IF debug /\ ~fit_expected(size, quantum_power, strat)
                   THEN Panic
                   ELSE SomeArq(Arq("Loc", start, size.power, size.count))

\* approximate_arq
approximate_arq(quantum_power, min_power, strat, start, len, debug) ==
    IF len = 0
        THEN SomeArq(Arq("Loc", start, min_power, 0))
        ELSE LET size == power_and_count_from_length(quantum_power, len, strat.max_chunks)
             IN IF debug /\ ~fit_expected(size, quantum_power, strat)
                   THEN Panic
                   ELSE SomeArq(Arq("Loc", start, size.power, size.count))

\* approximate_arq is applied to a start and a length.
approximate_arq_call ==
    /\ arq.op = "none"
    /\ \E quantum_power \in QuantumPowers, min_power \in MinPowers, start \in Word, len \in Lengths, debug \in BOOLEAN :
         \E strat \in Strats(quantum_power) :
            arq' = [ op |-> "approximate_arq",
                     in |-> [quantum_power |-> quantum_power, min_power |-> min_power, strat |-> strat,
                             start |-> start, len |-> len, debug |-> debug],
                     out |-> approximate_arq(quantum_power, min_power, strat, start, len, debug) ]
    /\ UNCHANGED <<gossip_type, handshake_vars, gen, workflow>>

\* DhtArc::from_start_and_len: the arc range of the length from the start,
\* which the arc keeps.
DhtArc(start, len) ==
    [ start |-> start,
      range |-> IF len = 0
                   THEN Empty
                   ELSE IF len >= 2^Bits
                           THEN Full
                           ELSE Bounded(start, (start + len - 1) % 2^Bits) ]

\* Mutant of to_dht_arc: the arc ends at start + len.
to_dht_arc_closed(a, quantum_power, debug) ==
    LET len == absolute_length(a, quantum_power, debug)
    IN IF IsSome(len)
          THEN Some([DhtArc(a.start, Unwrap(len)) EXCEPT
                        !.range = IF @.kind = "Bounded" THEN Bounded(@.lo, (@.hi + 1) % 2^Bits) ELSE @])
          ELSE None

\* Arq::to_dht_arc; None stands for a panic of absolute_length.
to_dht_arc(a, quantum_power, debug) ==
    LET len == absolute_length(a, quantum_power, debug)
    IN IF IsSome(len) THEN Some(DhtArc(a.start, Unwrap(len))) ELSE None

\* Arq::from_dht_arc_approximate
from_dht_arc_approximate(quantum_power, min_power, strat, dht_arc, debug) ==
    approximate_arq(quantum_power, min_power, strat, dht_arc.start, range_length(dht_arc.range), debug)

\* Arq::equivalent, of arqs with a Loc
equivalent(quantum_power, a, b) ==
    /\ a.start = b.start
    /\ (a.count * absolute_chunk_width(a, quantum_power)) % 2^Bits
          = (b.count * absolute_chunk_width(b, quantum_power)) % 2^Bits

\* The arc of a fitted arq is fitted again. Each of the three steps may
\* panic with debug assertions: the arc, the second arq and its arc are
\* None then.
dht_arc_roundtrip ==
    /\ arq.op = "approximate_arq"
    /\ arq.out.kind = "Some"
    /\ LET a == Unwrap(arq.out.arq)
           arc == to_dht_arc(a, arq.in.quantum_power, arq.in.debug)
           arq2 == IF IsSome(arc)
                      THEN from_dht_arc_approximate(arq.in.quantum_power, arq.in.min_power,
                                                    arq.in.strat, Unwrap(arc), arq.in.debug)
                      ELSE Panic
           arc2 == IF arq2.kind = "Some"
                      THEN to_dht_arc(Unwrap(arq2.arq), arq.in.quantum_power, arq.in.debug)
                      ELSE None
       IN arq' = [ op |-> "dht_arc_roundtrip",
                   in |-> arq.in @@ [arq |-> a],
                   out |-> [arc |-> arc, arq2 |-> arq2.arq, arc2 |-> arc2] ]
    /\ UNCHANGED <<gossip_type, handshake_vars, gen, workflow>>

\* ArqBounds::equivalent
bounds_equivalent(quantum_power, a, b) ==
    \/ a.count = 0 /\ b.count = 0
    \/ /\ (a.start * absolute_chunk_width(a, quantum_power)) % 2^Bits
             = (b.start * absolute_chunk_width(b, quantum_power)) % 2^Bits
       /\ (a.count * absolute_chunk_width(a, quantum_power)) % 2^Bits
             = (b.count * absolute_chunk_width(b, quantum_power)) % 2^Bits

\* The bounds of a fitted arq are converted to an arc range and back by
\* from_interval at the power of the bounds.
arc_interval_roundtrip ==
    /\ arq.op = "approximate_arq"
    /\ arq.out.kind = "Some"
    /\ LET bounds == to_bounds(Unwrap(arq.out.arq), arq.in.quantum_power)
           interval == to_dht_arc_range(bounds, arq.in.quantum_power)
       IN arq' = [ op |-> "arc_interval_roundtrip",
                   in |-> arq.in @@ [bounds |-> bounds],
                   out |-> [interval |-> interval,
                            back |-> from_interval(arq.in.quantum_power, bounds.power, interval)] ]
    /\ UNCHANGED <<gossip_type, handshake_vars, gen, workflow>>

\* The bounds of a topology that are compared: a power of the topology, a
\* start on a quarter of the ring and chunks that are together not longer
\* than the ring.
ComparedBounds(quantum_power) ==
    { b \in [start_kind : {"Offset"}, start : Word, power : TopoPowers(quantum_power), count : Word] :
        /\ b.start * chunk_size(quantum_power, b.power) < 2^Bits
        /\ (b.start * chunk_size(quantum_power, b.power)) % 2^(Bits - 2) = 0
        /\ b.count * chunk_size(quantum_power, b.power) <= 2^Bits }

\* ArqBounds::equivalent is applied to two bounds.
equivalent_call ==
    /\ arq.op = "none"
    /\ \E quantum_power \in QuantumPowers :
         \E a \in ComparedBounds(quantum_power), b \in ComparedBounds(quantum_power) :
            arq' = [ op |-> "equivalent",
                     in |-> [quantum_power |-> quantum_power, a |-> a, b |-> b],
                     out |-> bounds_equivalent(quantum_power, a, b) ]
    /\ UNCHANGED <<gossip_type, handshake_vars, gen, workflow>>

\* Mutant of new_full: the count of one power higher.
new_full_short(quantum_power, start_kind, start, power, debug) ==
    LET exponent == saturating_sub(Bits - 1, power + quantum_power)
        count == pow2(exponent)
    IN IF (debug /\ exponent >= Bits) \/ ~is_full(quantum_power, power, count)
          THEN Panic
          ELSE SomeArq(Arq(start_kind, start, power, count))

\* Arq::new_full. pow2 asserts its exponent below the width with debug
\* assertions; new_full asserts that the arq is full.
new_full(quantum_power, start_kind, start, power, debug) ==
    LET exponent == saturating_sub(Bits, power + quantum_power)
        count == pow2(exponent)
    IN IF (debug /\ exponent >= Bits) \/ ~is_full(quantum_power, power, count)
          THEN Panic
          ELSE SomeArq(Arq(start_kind, start, power, count))

\* new_full is applied to a start and a power; the arq it returns is
\* converted to an arc range.
new_full_call ==
    /\ arq.op = "none"
    /\ \E quantum_power \in QuantumPowers, start_kind \in {"Loc", "Offset"}, start \in Word, power \in 0 .. Bits, debug \in BOOLEAN :
         LET full == new_full(quantum_power, start_kind, start, power, debug)
         IN arq' = [ op |-> "new_full",
                     in |-> [quantum_power |-> quantum_power, start_kind |-> start_kind,
                             start |-> start, power |-> power, debug |-> debug],
                     out |-> [full |-> full,
                              range |-> IF full.kind = "Some"
                                           THEN Some(to_dht_arc_range(Unwrap(full.arq), quantum_power))
                                           ELSE None] ]
    /\ UNCHANGED <<gossip_type, handshake_vars, gen, workflow>>

\* A call of absolute_chunk_width: None stands for the panic of its
\* assertion, which debug builds check.
absolute_chunk_width_checked(a, quantum_power, debug) ==
    IF debug /\ ~chunk_width_expected(a, quantum_power)
        THEN None
        ELSE Some(absolute_chunk_width(a, quantum_power))

\* absolute_chunk_width is applied to an arq of any power below the width.
absolute_chunk_width_call ==
    /\ arq.op = "none"
    /\ \E quantum_power \in QuantumPowers, power \in Powers, debug \in BOOLEAN :
         arq' = [ op |-> "absolute_chunk_width",
                  in |-> [quantum_power |-> quantum_power, power |-> power, debug |-> debug],
                  out |-> absolute_chunk_width_checked([power |-> power], quantum_power, debug) ]
    /\ UNCHANGED <<gossip_type, handshake_vars, gen, workflow>>

\* The operations on arqs in a topology, each applied to inputs of its own.
NextFit ==
    \/ to_edge_locs_call
    \/ to_bounds_call
    \/ from_interval_call
    \/ power_and_count_from_length_call
    \/ power_and_count_from_length_exact_call
    \/ approximate_arq_call
    \/ dht_arc_roundtrip
    \/ arc_interval_roundtrip
    \/ equivalent_call
    \/ new_full_call
    \/ is_full_call
    \/ absolute_chunk_width_call

SpecFit == InitArq /\ [][NextFit]_vars

\* ------------------------------------------------ the zome call workflow
\* One run of call_zome_workflow.  Each action is the code up to the next
\* await of a collaborator and the collaborator's return; the results of the
\* collaborators are chosen freely among the values of their types.  The
\* result of the workflow is one of
\*   "Ok(result)"              the result of the zome call, be it a response
\*                             or a ribosome error,
\*   "Ok(Ok(error_response))"  the response of a failed countersigning publish,
\*   "Err(InvalidCommit)"      SourceChainError::InvalidCommit,
\*   "Err(Other)"              any other WorkflowError.

\* What app validation of an op gives: an Outcome, or an error in its place.
Outcomes == {"Accepted", "Rejected", "AwaitingDeps", "Error"}

\* map_outcome (lines 327-351): the result of inline validation for one
\* outcome of app validation.
map_outcome(outcome) ==
    CASE outcome = "Error" -> "Other"
      [] outcome = "Accepted" -> "Ok"
      [] outcome = "Rejected" -> "InvalidCommit"
      [] outcome = "AwaitingDeps" -> "InvalidCommit"

\* The workflow returns.
finished(w, result) == [w EXCEPT !.pc = "done", !.result = result]

\* inline_validation returns.
validated(w, result) == [w EXCEPT !.pc = "validated", !.validation_result = result]

\* inline_validation, second loop (lines 260-287): on to record i, which
\* is validated as ops op_types, or out of the loop with Ok(()).
to_app_validate(w, i, ops) ==
    IF i > w.scratch_records
        THEN validated(w, "Ok")
        ELSE [w EXCEPT !.pc = "validate_op", !.record = i, !.op_types = ops]

\* inline_validation, first loop (lines 245-255): on to record i, or on to
\* the second loop.
to_sys_validate(w, i, ops) ==
    IF i > w.scratch_records
        THEN to_app_validate(w, 1, ops)
        ELSE [w EXCEPT !.pc = "sys_validate_record", !.record = i]

\* call_zome_workflow up to the await of call_zome_workflow_inner
\* (lines 62-71).
call_zome_workflow_begin ==
    /\ workflow.pc = "idle"
    /\ \E is_root_zome_call \in BOOLEAN, coordinator_zome \in BOOLEAN :
          workflow' = [workflow EXCEPT !.pc = "call_zome_function_authorized",
                                       !.is_root_zome_call = is_root_zome_call,
                                       !.coordinator_zome = coordinator_zome]
    /\ UNCHANGED <<gossip_type, handshake_vars, gen, arq>>

\* call_zome_workflow_inner up to the return of call_zome_function_authorized
\* (lines 146-159, 199-225): the authorization check or the blocking task
\* fails, or the call gives a response, a ribosome error or Unauthorized;
\* the zome function has left records in the scratch space.
call_zome_function_authorized ==
    /\ workflow.pc = "call_zome_function_authorized"
    /\ \/ workflow' = finished(workflow, "Err(Other)")
       \/ \E r \in {"Ok", "Err", "Unauthorized"}, n \in 0 .. MaxRecords :
            workflow' = [workflow EXCEPT !.pc = "inline_validation",
                                         !.zome_call = r,
                                         !.scratch_records = n]
    /\ UNCHANGED <<gossip_type, handshake_vars, gen, arq>>

\* inline_validation up to the first record (lines 239-246).
inline_validation_begin ==
    /\ workflow.pc = "inline_validation"
    /\ \/ workflow' = validated(workflow, "Other")
       \/ \E ops \in 1 .. MaxOpTypes : workflow' = to_sys_validate(workflow, 1, ops)
    /\ UNCHANGED <<gossip_type, handshake_vars, gen, arq>>

\* inline_validation, sys_validate_record of one record returns
\* (lines 247-254).
sys_validate_record_returns ==
    /\ workflow.pc = "sys_validate_record"
    /\ \/ \E r \in {"InvalidCommit", "Other"} : workflow' = validated(workflow, r)
       \/ \E ops \in 1 .. MaxOpTypes :
            workflow' = to_sys_validate(workflow, workflow.record + 1, ops)
    /\ UNCHANGED <<gossip_type, handshake_vars, gen, arq>>

\* inline_validation, one op of a record (lines 261-285): record_to_op
\* fails and its outcome is returned, or validate_op gives the outcome.
validate_op_returns ==
    /\ workflow.pc = "validate_op"
    /\ \E outcome \in Outcomes, record_to_op_failed \in BOOLEAN, ops \in 1 .. MaxOpTypes :
          LET w == [workflow EXCEPT !.outcome = outcome]
          IN workflow' =
                IF record_to_op_failed \/ map_outcome(outcome) # "Ok"
                    THEN validated(w, map_outcome(outcome))
                    ELSE IF w.op_types > 1
                        THEN [w EXCEPT !.op_types = @ - 1]
                        ELSE to_app_validate(w, w.record + 1, ops)
    /\ UNCHANGED <<gossip_type, handshake_vars, gen, arq>>

\* call_zome_workflow_inner after inline_validation (lines 165-192), and
\* call_zome_workflow up to the commit (lines 69-76): after an InvalidCommit
\* the chain may be unlocked, and a failing query of the scratch space or
\* of the lock is returned in place of the InvalidCommit.
call_zome_workflow_inner_returns ==
    /\ workflow.pc = "validated"
    /\ CASE workflow.validation_result = "InvalidCommit" ->
              \/ workflow' = finished(workflow, "Err(Other)")
              \/ \E unlock \in (IF workflow.scratch_records = 1 THEN BOOLEAN ELSE {FALSE}) :
                    workflow' = finished([workflow EXCEPT !.unlocked = unlock], "Err(InvalidCommit)")
         [] workflow.validation_result = "Other" ->
              workflow' = finished(workflow, "Err(Other)")
         [] OTHER ->
              workflow' = IF workflow.is_root_zome_call
                              THEN [workflow EXCEPT !.pc = "flush"]
                              ELSE finished(workflow, "Ok(result)")
    /\ UNCHANGED <<gossip_type, handshake_vars, gen, arq>>

\* The commit of the workspace (lines 76-78, 120-123): countersigning_op is
\* read and the source chain is flushed.
flush ==
    /\ workflow.pc = "flush"
    /\ \/ workflow' = finished(workflow, "Err(Other)")
       \/ \E op \in BOOLEAN :
            LET w == [workflow EXCEPT !.countersigning_op = op]
            IN \/ workflow' = finished([w EXCEPT !.flush = "Err"], "Err(Other)")
               \/ \E n \in 0 .. w.scratch_records :
                    workflow' = [w EXCEPT !.pc = "flushed", !.flush = "Ok", !.flushed_actions = n]
    /\ UNCHANGED <<gossip_type, handshake_vars, gen, arq>>

\* After the publish (lines 104-117): post-commit for a coordinator zome.
to_post_commit(w) ==
    IF w.coordinator_zome
        THEN [w EXCEPT !.pc = "send_post_commit"]
        ELSE finished(w, "Ok(result)")

\* After a successful flush (lines 79-104): nothing for an empty flush, else
\* the countersigning publish or the two triggers.
publish ==
    /\ workflow.pc = "flushed"
    /\ IF workflow.flushed_actions = 0
          THEN workflow' = finished(workflow, "Ok(result)")
          ELSE IF workflow.countersigning_op
              THEN \/ workflow' = finished(workflow, "Err(Other)")
                   \/ workflow' = finished(workflow, "Ok(Ok(error_response))")
                   \/ workflow' = to_post_commit(workflow)
              ELSE workflow' = to_post_commit([workflow EXCEPT !.published = TRUE,
                                                               !.integrated = TRUE])
    /\ UNCHANGED <<gossip_type, handshake_vars, gen, arq>>

\* send_post_commit returns (lines 105-126).
send_post_commit_returns ==
    /\ workflow.pc = "send_post_commit"
    /\ \E r \in {"Ok(result)", "Err(Other)"} :
          workflow' = finished([workflow EXCEPT !.post_commit = TRUE], r)
    /\ UNCHANGED <<gossip_type, handshake_vars, gen, arq>>

NextWorkflow ==
    \/ call_zome_workflow_begin
    \/ call_zome_function_authorized
    \/ inline_validation_begin
    \/ sys_validate_record_returns
    \/ validate_op_returns
    \/ call_zome_workflow_inner_returns
    \/ flush
    \/ publish
    \/ send_post_commit_returns

SpecWorkflow == InitArq /\ [][NextWorkflow]_vars

\* ------------------------------------------------------------ properties
\* The reply of a call holds an Accept.
HasAccept(r) ==
    /\ r.op = "incoming_initiate"
    /\ r.result.kind = "Ok"
    /\ \E i \in 1 .. Len(r.result.val) : r.result.val[i].type = "Accept"

\* The call of instance n that returned last was an incoming_initiate from
\* peer p carrying tie-break id remote_id, read while n held p as its
\* outgoing target with tie-break id our_id.
ProcessedAsTarget(n, p, our_id, remote_id) ==
    /\ returned[n].op = "incoming_initiate"
    /\ returned[n].peer = p
    /\ returned[n].same_as_target = Some(our_id)
    /\ returned[n].remote_id = remote_id

\* A and B held each other as target with ids a and b, and each processed
\* the other's Initiate.
PairProcessed(a, b) ==
    /\ ProcessedAsTarget("A", "B", a, b)
    /\ ProcessedAsTarget("B", "A", b, a)

\* C1 as stated: of two peers that hold each other as target with ids a and
\* b and process each other's Initiate, exactly one accepts when a # b, the
\* one with the strictly smaller id, and neither accepts when a = b.
C1_ExactlyOneAccepts ==
    \A a \in Ids, b \in Ids :
        PairProcessed(a, b) =>
            /\ HasAccept(returned["A"]) <=> a < b
            /\ HasAccept(returned["B"]) <=> b < a

\* The replies with which incoming_initiate rejects an Initiate.
Rejections == {Ok(<<AlreadyInProgress>>), Ok(<<NoAgents>>)}

\* C1 as amended: the peer whose id is not strictly smaller never accepts
\* (it replies nothing, or AlreadyInProgress when it has a round for the
\* other), so at most one accepts and none when a = b; the peer with the
\* strictly smaller id never yields, and accepts whenever its call returns
\* a reply that is no rejection.
C1_TieBreak ==
    \A a \in Ids, b \in Ids :
        PairProcessed(a, b) =>
            \A n \in Node :
                LET ours == IF n = "A" THEN a ELSE b
                    theirs == IF n = "A" THEN b ELSE a
                    r == returned[n]
                IN IF ours >= theirs
                      THEN r.result \in {Ok(<<>>), Ok(<<AlreadyInProgress>>)}
                      ELSE /\ r.result # Ok(<<>>)
                           /\ (r.result.kind = "Ok" /\ r.result \notin Rejections)
                                 => HasAccept(r)

\* C1 witness: A held the smaller id and accepted, B yielded.
C1_Witness ==
    /\ PairProcessed(0, 1)
    /\ HasAccept(returned["A"])
    /\ returned["B"].result = Ok(<<>>)
    /\ IsSome(round_map["A"]["B"])

\* C2: an incoming_initiate from a peer that has a round in the round map
\* replies exactly AlreadyInProgress, at once, and leaves the round map,
\* the outgoing target and the metrics as they were, whatever the ids and
\* the local agents are.
C2_AlreadyInProgress ==
    [][\A n \in instances, s \in Slot, p \in Cert :
          (incoming_initiate_check(n, s, p) /\ IsSome(round_map[n][p])) =>
              /\ calls' = calls
              /\ returned'[n].op = "incoming_initiate"
              /\ returned'[n].peer = p
              /\ returned'[n].result = Ok(<<AlreadyInProgress>>)
              /\ initiate_tgt' = initiate_tgt
              /\ round_map' = round_map
              /\ metrics' = metrics]_vars

\* C2 witness: AlreadyInProgress was replied to the peer that is our
\* target, after the local agents left.
C2_Witness ==
    /\ returned["A"].result = Ok(<<AlreadyInProgress>>)
    /\ IsSome(returned["A"].same_as_target)
    /\ IsSome(round_map["A"][returned["A"].peer])
    /\ local_agents["A"] = {}

\* The target of n is recorded and has not expired.
Unexpired(n) ==
    /\ IsSome(initiate_tgt[n])
    /\ IsSome(Unwrap(initiate_tgt[n]).when_initiated) =>
          now - Unwrap(Unwrap(initiate_tgt[n]).when_initiated) <= RoundTimeout

\* C3: at most one outgoing Initiate awaits its answer: a target that
\* awaits an answer is recorded (an Initiate is sent) only when no
\* unexpired target is recorded.
C3_OneOutgoingInitiate ==
    [][\A n \in instances :
          ( /\ initiate_tgt'[n] # initiate_tgt[n]
            /\ IsSome(initiate_tgt'[n])
            /\ IsSome(Unwrap(initiate_tgt'[n]).when_initiated) )
              => ~Unexpired(n)]_vars

\* C4: a round registered for a certificate is never replaced by a second
\* freshly created RoundState: incoming_initiate registers a round only
\* for a peer that has none.
C4_RoundNeverReplaced ==
    [][\A n \in instances, s \in Slot :
          (calls[n][s].pc = "register" /\ calls'[n][s].pc = "idle")
              => ~IsSome(round_map[n][calls[n][s].peer])]_vars

\* C5 as stated: whenever the local agent list is empty, incoming_initiate
\* replies exactly NoAgents (at once, or after it abandoned its own target)
\* and registers no round.
C5_NoAgentsWheneverEmpty ==
    [][\A n \in instances, s \in Slot, p \in Cert :
          /\ (incoming_initiate_check(n, s, p) /\ local_agents[n] = {}) =>
                /\ round_map' = round_map
                /\ \/ calls'[n][s].pc = "clear_tgt"
                   \/ calls' = calls /\ returned'[n].result = Ok(<<NoAgents>>)
          /\ (incoming_initiate_clear_tgt(n, s) /\ calls[n][s].local_agents = {}) =>
                /\ round_map' = round_map
                /\ returned'[n].result = Ok(<<NoAgents>>)]_vars

\* C5 as amended: whenever the local agent list is empty, incoming_initiate
\* registers no round and replies exactly NoAgents, unless a round exists
\* for the peer (AlreadyInProgress) or the peer is our target and our id is
\* not lower than its id (empty reply).
C5_NoAgentsAfterTieBreak ==
    [][\A n \in instances, s \in Slot, p \in Cert :
          /\ (incoming_initiate_check(n, s, p) /\ local_agents[n] = {}) =>
                /\ round_map' = round_map
                /\ IF IsSome(round_map[n][p])
                      THEN calls' = calls /\ returned'[n].result = Ok(<<AlreadyInProgress>>)
                      ELSE \/ calls'[n][s].pc = "clear_tgt"
                           \/ calls' = calls /\ returned'[n].result = Ok(<<NoAgents>>)
                           \/ /\ calls' = calls
                              /\ returned'[n].result = Ok(<<>>)
                              /\ IsSome(initiate_tgt[n])
                              /\ Unwrap(initiate_tgt[n]).cert = p
                              /\ Unwrap(initiate_tgt[n]).tie_break >= returned'[n].remote_id
          /\ (incoming_initiate_clear_tgt(n, s) /\ calls[n][s].local_agents = {}) =>
                /\ round_map' = round_map
                /\ returned'[n].result = Ok(<<NoAgents>>)
          /\ calls'[n][s].pc \in {"generate_blooms_or_regions", "register"}
                => calls'[n][s].local_agents # {}]_vars

\* C5 witness: NoAgents was replied after the tie-break made us abandon
\* our target.
C5_Witness ==
    /\ returned["A"].op = "incoming_initiate"
    /\ returned["A"].result = Ok(<<NoAgents>>)
    /\ IsSome(returned["A"].same_as_target)
    /\ local_agents["A"] = {}
    /\ initiate_tgt["A"] = None

\* C6: an incoming_initiate from the peer that is our outgoing target, with
\* no round for it: when our id >= the remote id the reply is empty and the
\* target and the round map are unchanged; when our id < the remote id the
\* call goes on, and the target is none when it leaves the tie-break for
\* the accept path.
C6_TieBreakAtTarget ==
    [][\A n \in instances, s \in Slot, p \in Cert :
          /\ ( /\ incoming_initiate_check(n, s, p)
               /\ ~IsSome(round_map[n][p])
               /\ IsSome(initiate_tgt[n])
               /\ Unwrap(initiate_tgt[n]).cert = p ) =>
                LET our_id == Unwrap(initiate_tgt[n]).tie_break
                    remote_id == IF calls' = calls THEN returned'[n].remote_id
                                                   ELSE calls'[n][s].remote_id
                IN IF our_id >= remote_id
                      THEN /\ calls' = calls
                           /\ returned'[n].result = Ok(<<>>)
                           /\ initiate_tgt' = initiate_tgt
                           /\ round_map' = round_map
                      ELSE /\ calls'[n][s].pc = "clear_tgt"
                           /\ calls'[n][s].same_as_target = Some(our_id)
                           /\ returned' = returned
          /\ (calls[n][s].pc = "clear_tgt" /\ calls'[n][s].pc # "clear_tgt")
                => initiate_tgt'[n] = None
          /\ ( /\ calls'[n][s].pc \in {"generate_blooms_or_regions", "register"}
               /\ IsSome(calls'[n][s].same_as_target) )
                => /\ Unwrap(calls'[n][s].same_as_target) < calls'[n][s].remote_id
                   /\ calls[n][s].pc \in {"clear_tgt", "generate_blooms_or_regions", "register"}]_vars

\* C6 witness: we yielded to our target on a tie, and then, on a higher
\* remote id, abandoned the target and took the accept path.
C6_Witness ==
    /\ returned["A"].op = "incoming_initiate"
    /\ returned["A"].result = Ok(<<>>)
    /\ returned["A"].same_as_target = Some(returned["A"].remote_id)
    /\ initiate_tgt["A"] = None
    /\ \E s \in Slot :
          /\ calls["A"][s].pc = "generate_blooms_or_regions"
          /\ IsSome(calls["A"][s].same_as_target)

\* The messages of a bloom/region plan.
PlanTypes == {"AgentBloom", "OpBloom", "OpRegions"}

\* An Accept followed only by the messages of a plan.
AcceptReply(val) ==
    /\ Len(val) >= 1
    /\ val[1].type = "Accept"
    /\ \A i \in 2 .. Len(val) : val[i].type \in PlanTypes

\* C7: when incoming_initiate accepts (no round for the peer, no yielding
\* tie-break, local agents, all queries answered), the round map then
\* holds the new RoundState under the peer's certificate and the reply is
\* an Accept followed only by plan messages; in every other outcome the
\* reply holds no Accept and no round is registered.
C7_AcceptRegistersRound ==
    [][\A n \in instances :
          /\ \A s \in Slot :
                (calls[n][s].pc = "register" /\ calls'[n][s].pc = "idle") =>
                    /\ returned'[n].op = "incoming_initiate"
                    /\ returned'[n].peer = calls[n][s].peer
                    /\ returned'[n].result.kind = "Ok"
                    /\ AcceptReply(returned'[n].result.val)
                    /\ returned'[n].result.val[1].arq_bounds = LocalArqs(n)
                    /\ IsSome(calls[n][s].state)
                    /\ round_map'[n][calls[n][s].peer] = calls[n][s].state
                    /\ calls[n][s].local_agents # {}
                    /\ IsSome(calls[n][s].same_as_target) =>
                          Unwrap(calls[n][s].same_as_target) < calls[n][s].remote_id
          /\ (\A s \in Slot : ~(calls[n][s].pc = "register" /\ calls'[n][s].pc = "idle")) =>
                /\ returned'[n] # returned[n] => ~HasAccept(returned'[n])
                /\ \A c \in Cert :
                      IsSome(round_map'[n][c]) => round_map'[n][c] = round_map[n][c]]_vars

\* C7 witness: an Accept was replied and the round of the peer is in the
\* round map.
C7_Witness ==
    /\ HasAccept(returned["A"])
    /\ Len(returned["A"].result.val) >= 2
    /\ IsSome(round_map["A"][returned["A"].peer])

\* A target whose when_initiated is older than the round timeout.
Expired(tgt, t) ==
    /\ IsSome(tgt)
    /\ IsSome(Unwrap(tgt).when_initiated)
    /\ t - Unwrap(Unwrap(tgt).when_initiated) > RoundTimeout

\* C8 as stated: try_initiate returns Ok(None) and leaves the outgoing
\* target unchanged whenever an unexpired target exists, or the local agent
\* list is empty, or the search finds no remote candidate.
C8_NoMessageTargetUnchanged ==
    [][\A n \in instances, s \in Slot :
          /\ ( /\ try_initiate_check(n, s)
               /\ \/ IsSome(initiate_tgt[n]) /\ ~Expired(initiate_tgt[n], now)
                  \/ local_agents[n] = {} ) =>
                /\ calls' = calls
                /\ returned'[n].op = "try_initiate"
                /\ returned'[n].result = Ok(None)
                /\ initiate_tgt'[n] = initiate_tgt[n]
          /\ ( /\ calls[n][s].pc = "find_remote_agent"
               /\ calls'[n][s].pc = "idle"
               /\ returned'[n].result = Ok(None) ) =>
                initiate_tgt' = initiate_tgt]_vars

\* C8 as amended: in these three cases try_initiate returns Ok(None) and
\* leaves the outgoing target unchanged, except that a target that has
\* expired is cleared first.
C8_NoMessageTargetKeptOrExpired ==
    [][\A n \in instances, s \in Slot :
          /\ ( /\ try_initiate_check(n, s)
               /\ \/ IsSome(initiate_tgt[n]) /\ ~Expired(initiate_tgt[n], now)
                  \/ local_agents[n] = {} ) =>
                /\ calls' = calls
                /\ returned'[n].op = "try_initiate"
                /\ returned'[n].result = Ok(None)
                /\ initiate_tgt'[n] = IF Expired(initiate_tgt[n], now)
                                         THEN None ELSE initiate_tgt[n]
          /\ ( /\ try_initiate_check(n, s)
               /\ calls' # calls ) =>
                /\ initiate_tgt'[n] = None
                /\ ~IsSome(initiate_tgt[n]) \/ Expired(initiate_tgt[n], now)
          /\ ( /\ calls[n][s].pc = "find_remote_agent"
               /\ calls'[n][s].pc = "idle"
               /\ returned'[n].result = Ok(None) ) =>
                initiate_tgt' = initiate_tgt]_vars

\* C8 witness: try_initiate returned Ok(None) while an unexpired target
\* that awaits its answer is recorded.
C8_Witness ==
    /\ returned["A"].op = "try_initiate"
    /\ returned["A"].result = Ok(None)
    /\ IsSome(initiate_tgt["A"])
    /\ IsSome(Unwrap(initiate_tgt["A"]).when_initiated)
    /\ ~Expired(initiate_tgt["A"], now)

\* A step of a try_initiate call of instance n in slot s.
TryInitiateStep(n, s) ==
    \/ try_initiate_check(n, s)
    \/ calls[n][s].op = "try_initiate" /\ calls'[n][s] # calls[n][s]

\* C9: when try_initiate sends an Initiate, the target recorded afterwards
\* names the selected certificate, carries the tie-break id of the Initiate
\* and has when_initiated set; no step of try_initiate inserts a round.
C9_TargetRecorded ==
    [][\A n \in instances, s \in Slot :
          /\ ( /\ calls[n][s].pc = "find_remote_agent"
               /\ calls'[n][s].pc = "idle"
               /\ returned'[n].result.kind = "Ok"
               /\ IsSome(returned'[n].result.val) ) =>
                LET out == Unwrap(returned'[n].result.val)
                IN /\ out.gossip.type = "Initiate"
                   /\ IsSome(initiate_tgt'[n])
                   /\ Unwrap(initiate_tgt'[n]).cert = out.cert
                   /\ Unwrap(initiate_tgt'[n]).tie_break = out.gossip.tie_break
                   /\ Unwrap(initiate_tgt'[n]).when_initiated = Some(now)
          /\ TryInitiateStep(n, s) =>
                \A c \in Cert :
                    IsSome(round_map'[n][c]) => round_map'[n][c] = round_map[n][c]]_vars

\* C9 witness: an Initiate with a non-zero id was sent and the target
\* carries that id.
C9_Witness ==
    /\ returned["A"].op = "try_initiate"
    /\ IsSome(returned["A"].result.val)
    /\ IsSome(initiate_tgt["A"])
    /\ Unwrap(initiate_tgt["A"]).tie_break = 1
    /\ Unwrap(returned["A"].result.val).gossip.tie_break = 1
    /\ Unwrap(initiate_tgt["A"]).cert = Unwrap(returned["A"].result.val).cert

\* C10: when a collaborator call of incoming_initiate fails or the call is
\* abandoned, the outgoing target is what it was before the call: the
\* target the call read at its start is still recorded.
C10_FailureLeavesTarget ==
    [][\A n \in instances, s \in Slot :
          ( /\ calls[n][s].pc = "generate_blooms_or_regions"
            /\ calls'[n][s].pc = "idle"
            /\ returned'[n].result.kind \in {"Err", "Abandoned"}
            /\ IsSome(calls[n][s].same_as_target) ) =>
              /\ IsSome(initiate_tgt'[n])
              /\ Unwrap(initiate_tgt'[n]).cert = calls[n][s].peer
              /\ Unwrap(initiate_tgt'[n]).tie_break = Unwrap(calls[n][s].same_as_target)]_vars

\* ------------------------------------------- properties of the generator
\* The OpBloom messages of a message list, in order.
OpBlooms(msgs) == SelectSeq(msgs, LAMBDA m : m.type = "OpBloom")

\* The OpBloom messages of a list that carry a bloom of the batch.
EncodedBlooms(msgs) == SelectSeq(OpBlooms(msgs), LAMBDA m : m.filter.kind # "NoOverlap")

\* The last call followed was a next_bloom_batch (on its own, or at the end
\* of generate_blooms_or_regions).
BatchReturned == IsSome(gen.batch)

\* C11: of the messages one next_bloom_batch call appended, no OpBloom but
\* the last is final, and none is final while the returned state holds a
\* continuation cursor.
C11_OnlyLastBloomFinal ==
    BatchReturned =>
        LET b == OpBlooms(gen.appended)
        IN /\ \A i \in 1 .. Len(b) - 1 : ~b[i].is_final
           /\ \A i \in 1 .. Len(b) :
                b[i].is_final => ~IsSome(Unwrap(gen.state).bloom_batch_cursor)

\* C12 as stated: a next_bloom_batch call raises expected_op_bloom_count by
\* the number of OpBloom messages it appended.
C12_CountGrowsByOpBlooms ==
    BatchReturned =>
        Unwrap(gen.state).expected_op_bloom_count
            = Unwrap(gen.before).expected_op_bloom_count + Len(OpBlooms(gen.appended))

\* C12 amended: a next_bloom_batch call raises expected_op_bloom_count by
\* the number of blooms of the batch, which is the number of OpBloom
\* messages it appended that carry HaveHashes or MissingAllHashes; the
\* NoOverlap message of an empty batch is not counted.
C12_CountGrowsByBlooms ==
    BatchReturned =>
        /\ Unwrap(gen.state).expected_op_bloom_count
              = Unwrap(gen.before).expected_op_bloom_count + Len(Unwrap(gen.batch).data)
        /\ Len(EncodedBlooms(gen.appended)) = Len(Unwrap(gen.batch).data)
        /\ Len(OpBlooms(gen.appended)) - Len(EncodedBlooms(gen.appended))
              = (IF Unwrap(gen.batch).data = <<>> THEN 1 ELSE 0)

\* A second call counted two more blooms on a round that had counted some.
C12_Witness ==
    /\ BatchReturned
    /\ gen.calls >= 2
    /\ Unwrap(gen.before).expected_op_bloom_count > 0
    /\ Len(Unwrap(gen.batch).data) = 2
    /\ Unwrap(gen.state).expected_op_bloom_count
          = Unwrap(gen.before).expected_op_bloom_count + 2

\* A next_bloom_batch call flagged one of its OpBloom messages final.
FinalEmitted ==
    \E i \in 1 .. Len(gen.appended) :
        gen.appended[i].type = "OpBloom" /\ gen.appended[i].is_final

\* The time windows of the blooms a call appended all start at `start`.
BloomsStartAt(msgs, start) ==
    \A i \in 1 .. Len(EncodedBlooms(msgs)) :
        EncodedBlooms(msgs)[i].filter.time_window.start = start

\* C13: after a Partial batch the returned state holds the batch's cursor
\* and the next call queries (and encodes blooms for) a window that starts
\* at that cursor; after a Complete batch the state holds no cursor and the
\* next call queries the default window; a Complete batch leads to a final
\* bloom.
C13_CursorResumes ==
    /\ [](BatchReturned =>
            Unwrap(gen.state).bloom_batch_cursor
                = (IF Unwrap(gen.batch).kind = "Partial"
                      THEN Some(Unwrap(gen.batch).cursor) ELSE None))
    /\ [][(BatchReturned /\ next_bloom_batch_returns) =>
            /\ Unwrap(gen.batch).kind = "Partial" =>
                  /\ Unwrap(gen'.window)
                        = [DefaultWindow EXCEPT !.start = Unwrap(gen.batch).cursor]
                  /\ BloomsStartAt(gen'.appended, Unwrap(gen.batch).cursor)
            /\ Unwrap(gen.batch).kind = "Complete" =>
                  /\ Unwrap(gen'.window) = DefaultWindow
                  /\ BloomsStartAt(gen'.appended, DefaultWindow.start)]_vars
    /\ ((BatchReturned /\ Unwrap(gen.batch).kind = "Complete") ~> FinalEmitted)

\* A call resumed from the cursor of a Partial batch, got a Complete batch
\* with blooms and emitted the final bloom.
C13_Witness ==
    /\ BatchReturned
    /\ gen.calls >= 2
    /\ IsSome(Unwrap(gen.before).bloom_batch_cursor)
    /\ Unwrap(gen.window).start = Unwrap(Unwrap(gen.before).bloom_batch_cursor)
    /\ Unwrap(gen.window).start > 0
    /\ Unwrap(gen.batch).kind = "Complete"
    /\ Unwrap(gen.batch).data # <<>>
    /\ ~IsSome(Unwrap(gen.state).bloom_batch_cursor)
    /\ FinalEmitted

\* C14: for an empty batch next_bloom_batch appends exactly one OpBloom,
\* which carries NoOverlap; for n >= 1 blooms it appends exactly n OpBloom
\* messages, none NoOverlap, the i-th HaveHashes (with the encoded filter)
\* if the i-th bloom has a filter and MissingAllHashes otherwise.
C14_BloomEncoding ==
    BatchReturned =>
        LET data == Unwrap(gen.batch).data
            b == OpBlooms(gen.appended)
        IN IF data = <<>>
              THEN Len(b) = 1 /\ b[1].filter = NoOverlap
              ELSE /\ Len(b) = Len(data)
                   /\ \A i \in 1 .. Len(b) :
                        b[i].filter =
                            IF IsSome(data[i].bloom)
                                THEN HaveHashes(encode_bloom_filter(Unwrap(data[i].bloom)), data[i].time)
                                ELSE MissingAllHashes(data[i].time)

\* A batch with a filter and without one was encoded.
C14_Witness ==
    /\ BatchReturned
    /\ Len(Unwrap(gen.batch).data) = 2
    /\ IsSome(Unwrap(gen.batch).data[1].bloom)
    /\ ~IsSome(Unwrap(gen.batch).data[2].bloom)
    /\ OpBlooms(gen.appended)[1].filter.kind = "HaveHashes"
    /\ OpBlooms(gen.appended)[2].filter.kind = "MissingAllHashes"

\* The messages of a list that have the given type.
OfType(msgs, type) == SelectSeq(msgs, LAMBDA m : m.type = type)

\* C15: generate_blooms_or_regions of a Historical instance appends exactly
\* one OpRegions and no AgentBloom or OpBloom and returns a state with a
\* region set, has_pending_historical_op_data and not regions_are_queued;
\* of a Recent instance it appends no OpRegions and returns a state with no
\* region set and regions_are_queued.
C15_PlanByGossipType ==
    gen.calls = 1 =>
        LET state == Unwrap(gen.state)
        IN IF gossip_type = "Historical"
              THEN /\ Len(gen.appended) = 1
                   /\ gen.appended[1].type = "OpRegions"
                   /\ IsSome(state.region_set)
                   /\ state.has_pending_historical_op_data
                   /\ ~state.regions_are_queued
              ELSE /\ OfType(gen.appended, "OpRegions") = <<>>
                   /\ ~IsSome(state.region_set)
                   /\ state.regions_are_queued

\* generate_blooms_or_regions returned for a Historical round.
C15_Witness ==
    /\ gen.calls = 1
    /\ gossip_type = "Historical"
    /\ OfType(gen.appended, "OpRegions") # <<>>
    /\ Unwrap(gen.state).has_pending_historical_op_data

\* ------------------------------------------------ metrics and expiry
\* C16: an incoming_initiate that accepts the peer it had read as its own
\* outgoing target (it went on after the tie-break) records nothing in the
\* metrics; one that accepts a peer that is not the outgoing target records
\* the round and the accept exactly once.
C16_NoMetricsForOwnTarget ==
    [][\A n \in instances, s \in Slot :
        incoming_initiate_register(n, s) =>
            IF IsSome(calls[n][s].same_as_target)
                THEN metrics' = metrics
                ELSE (~IsSome(initiate_tgt[n]) \/ Unwrap(initiate_tgt[n]).cert # calls[n][s].peer)
                        => /\ metrics'[n].current_rounds = metrics[n].current_rounds + 1
                           /\ metrics'[n].accepts = metrics[n].accepts + 1]_vars

\* An instance whose Initiates are never answered: only try_initiate runs,
\* again and again, as the gossip loop calls it.
NextUnanswered ==
    \/ \E n \in instances, s \in Slot : try_initiate_check(n, s)
    \/ \E n \in instances, s \in Slot : try_initiate_find(n, s)
    \/ \E n \in instances, s \in Slot : abandon(n, s)
    \/ \E n \in instances : local_agent_leave(n)
    \/ \E n \in instances : local_agent_join(n)
    \/ tick

SpecUnanswered ==
    /\ Init
    /\ [][NextUnanswered]_vars
    /\ WF_vars(\E n \in instances, s \in Slot : try_initiate_check(n, s))
    /\ WF_vars(\E n \in instances, s \in Slot : try_initiate_find(n, s))

\* The run can still start a call on instance A.
CallsLeft == started < MaxCalls

\* C17: an unanswered outgoing target does not block initiation forever.
\* Once it has expired, a try_initiate follows (while the run may start
\* calls) and the expired target is gone, cleared by that call or replaced
\* by a call that was selecting a peer; every try_initiate that starts on an expired
\* target clears it before the target test and, with a local agent, goes on
\* to select a peer; and a selection that returns a candidate sends an
\* Initiate to it and records it as the new target.
C17_ExpiredTargetCleared ==
    /\ ((Expired(initiate_tgt["A"], now) /\ CallsLeft) ~> ~Expired(initiate_tgt["A"], now))
    /\ [][\A n \in instances, s \in Slot :
            (try_initiate_check(n, s) /\ Expired(initiate_tgt[n], now)) =>
                /\ ~IsSome(initiate_tgt'[n])
                /\ local_agents[n] # {} => calls'[n][s].pc = "find_remote_agent"]_vars
    /\ [][\A n \in instances, s \in Slot :
            (try_initiate_find(n, s) /\ returned'[n].result.kind = "Ok"
                                     /\ IsSome(returned'[n].result.val)) =>
                LET out == Unwrap(returned'[n].result.val)
                IN /\ out.gossip.type = "Initiate"
                   /\ IsSome(initiate_tgt'[n])
                   /\ Unwrap(initiate_tgt'[n]).cert = out.cert
                   /\ Unwrap(initiate_tgt'[n]).when_initiated = Some(now)]_vars

\* The second call of the run found the target of the first expired,
\* cleared it and is selecting a peer.
C17_Witness ==
    /\ started = 2
    /\ returned["A"].op = "try_initiate"
    /\ returned["A"].result.kind = "Ok"
    /\ IsSome(returned["A"].result.val)
    /\ ~IsSome(initiate_tgt["A"])
    /\ \E s \in Slot : calls["A"][s].pc = "find_remote_agent"

\* ------------------------------------------- properties of the arq algebra
\* C18 as stated: for every topology and power p below the width, with
\* threshold = 2^(width - quantum_power - p) (where that is an integer):
\* is_full(p, threshold - 1) is false and is_full(p, threshold) is true.
C18_IsFullThreshold ==
    (arq.op = "is_full" /\ arq.in.power < Bits
                        /\ Bits - arq.in.quantum_power - arq.in.power >= 0) =>
        LET threshold == 2^(Bits - arq.in.quantum_power - arq.in.power)
        IN /\ arq.in.count = threshold => arq.out
           /\ arq.in.count = threshold - 1 => ~arq.out

\* C18 amended: for 1 <= p <= width - quantum_power is_full(p, count) is
\* true exactly from count = threshold on (false at threshold - 1, true at
\* threshold); for p = 0 it is false for every count; for
\* width - quantum_power < p < width it is true exactly for count >= 1.
C18_IsFullThresholdAbovePowerZero ==
    (arq.op = "is_full" /\ arq.in.power < Bits) =>
        IF arq.in.power = 0
            THEN ~arq.out
            ELSE IF arq.in.power <= Bits - arq.in.quantum_power
                    THEN LET threshold == 2^(Bits - arq.in.quantum_power - arq.in.power)
                         IN /\ arq.in.count = threshold => arq.out
                            /\ arq.in.count = threshold - 1 => ~arq.out
                            /\ arq.out <=> arq.in.count >= threshold
                    ELSE arq.out <=> arq.in.count >= 1

\* is_full was applied at the threshold of power 2 in a topology with
\* quantum_power 1 and returned true.
C18_Witness ==
    /\ arq.op = "is_full"
    /\ arq.in.power = 2
    /\ arq.in.quantum_power = 1
    /\ arq.in.count = 2^(Bits - 3)
    /\ arq.out

\* C19: for every (located) Arq and new power below the width, requantize
\* to a higher power returns the arq with count / 2^(new_power - power) when
\* count is divisible by that factor and None otherwise; requantize to the
\* same or a lower power returns the arq with count * 2^(power - new_power).
C19_Requantize ==
    (arq.op = "requantize" /\ arq.in.a.start_kind = "Loc" /\ arq.in.new_power < Bits) =>
        LET a == arq.in.a
            new_power == arq.in.new_power
        IN IF new_power > a.power
              THEN LET factor == 2^(new_power - a.power)
                   IN IF a.count % factor = 0
                         THEN arq.out = SomeArq(Arq("Loc", a.start, new_power, a.count \div factor))
                         ELSE arq.out = NoArq
              ELSE arq.out = SomeArq(Arq("Loc", a.start, new_power,
                                         a.count * 2^(a.power - new_power)))

\* C20: for every Arq a (power below the width, any count, Loc or Offset
\* start) and power p below the width: if a.requantize(p) is Some(b) then
\* b.requantize(a.power) is Some(a); and if going up to p would lose
\* coverage (the count, or the offset the arq starts at, is no multiple of
\* the factor) then a.requantize(p) is None.
C20_RequantizeRoundTrip ==
    /\ (arq.op = "requantize_back" /\ arq.in.power < Bits) => arq.out = SomeArq(arq.in.a)
    /\ (arq.op = "requantize" /\ arq.in.new_power < Bits
                              /\ arq.in.new_power > arq.in.a.power) =>
            LET factor == 2^(arq.in.new_power - arq.in.a.power)
            IN (\/ arq.in.a.count % factor # 0
                \/ arq.in.a.start_kind = "Offset" /\ arq.in.a.start % factor # 0)
                    => arq.out = NoArq

\* C21: requantize to the same or a lower power never fails and loses
\* nothing: it returns Some arq whose count times its chunk width is that
\* of the original (and whose Offset start times the chunk width is that
\* of the original), nothing having overflowed.
C21_RequantizeDownLossless ==
    (arq.op = "requantize" /\ arq.in.new_power <= arq.in.a.power) =>
        /\ arq.out.kind = "Some"
        /\ Unwrap(arq.out.arq).count * 2^arq.in.new_power = arq.in.a.count * 2^arq.in.a.power
        /\ arq.in.a.start_kind = "Offset" =>
              Unwrap(arq.out.arq).start * 2^arq.in.new_power = arq.in.a.start * 2^arq.in.a.power

\* C22: requantize to a higher power is None whenever an Offset start is
\* no multiple of the factor, even when the count is one; requantize of a
\* located arq to the same or a lower power returns its start unchanged.
C22_StartRequantizes ==
    /\ (arq.op = "requantize" /\ arq.in.a.start_kind = "Offset"
                              /\ arq.in.new_power > arq.in.a.power
                              /\ arq.in.new_power < Bits
                              /\ arq.in.a.start % 2^(arq.in.new_power - arq.in.a.power) # 0)
            => arq.out = NoArq
    /\ (arq.op = "requantize" /\ arq.in.a.start_kind = "Loc"
                              /\ arq.in.new_power <= arq.in.a.power
                              /\ arq.out.kind # "Panic")
            => /\ arq.out.kind = "Some"
               /\ Unwrap(arq.out.arq).start = arq.in.a.start

\* An Offset arq whose count divides by the factor and whose start does
\* not was requantized to a higher power, with result None.
C22_Witness ==
    /\ arq.op = "requantize"
    /\ arq.in.a.start_kind = "Offset"
    /\ arq.in.new_power = arq.in.a.power + 2
    /\ arq.in.a.count = 8
    /\ arq.in.a.start = 6
    /\ arq.out = NoArq

\* The indices of a list of bounds, ordered by the left edges of the bounds
\* (bounds of equal left edge keep their order).
ByLeftEdge(bounds, quantum_power) ==
    CHOOSE order \in [1 .. Len(bounds) -> 1 .. Len(bounds)] :
        /\ \A i, j \in 1 .. Len(bounds) : i # j => order[i] # order[j]
        /\ \A i \in 1 .. Len(bounds) - 1 :
              \/ left_edge(bounds[order[i]], quantum_power) < left_edge(bounds[order[i + 1]], quantum_power)
              \/ /\ left_edge(bounds[order[i]], quantum_power) = left_edge(bounds[order[i + 1]], quantum_power)
                 /\ order[i] < order[i + 1]

\* The places of an order of indices where the next index is smaller.
Discontinuities(order) == {i \in 1 .. Len(order) - 1 : order[i] > order[i + 1]}

\* C24: the bounds of arqs of one power and count at centerpoints sorted
\* ascending, ordered by their left edge, keep the order of the centerpoints
\* except for at most one discontinuity.
C24_BoundsKeepOrder ==
    arq.op = "to_bounds" =>
        Cardinality(Discontinuities(ByLeftEdge(arq.out, arq.in.quantum_power))) <= 1

\* Witness of C24: three centerpoints in three different chunks.
C24_Witness ==
    /\ arq.op = "to_bounds"
    /\ Len(arq.out) = 3
    /\ arq.in.power > 0
    /\ arq.out[1].start < arq.out[2].start
    /\ arq.out[2].start < arq.out[3].start
    /\ ByLeftEdge(arq.out, arq.in.quantum_power) = <<1, 2, 3>>

\* The edges of the arq are on chunk boundaries and span its length.
EdgesSpanLength ==
    LET width == chunk_size(arq.in.quantum_power, arq.in.a.power)
    IN /\ IsSome(arq.out.length)
       /\ arq.out.edges.left % width = 0
       /\ ((arq.out.edges.right + 1) % 2^Bits) % width = 0
       /\ ((arq.out.edges.right + 2^Bits - arq.out.edges.left) % 2^Bits) + 1 = Unwrap(arq.out.length)

\* to_edge_locs was applied to an arq that is not full and not empty.
EdgesOfPartialArq ==
    /\ arq.op = "to_edge_locs"
    /\ arq.in.a.count > 0
    /\ ~is_full(arq.in.quantum_power, arq.in.a.power, arq.in.a.count)

BoundedLength(interval) == ((interval.hi + 2^Bits - interval.lo) % 2^Bits) + 1

\* The Bounded range starts off a chunk boundary of the power, or its length
\* is more than one unit away from every multiple of the chunk width.
Lossy(interval, quantum_power, power) ==
    LET width == chunk_size(quantum_power, power)
    IN \/ interval.lo % width # 0
       \/ \A k \in 0 .. 2^Bits :
             /\ BoundedLength(interval) - k * width > 1
             \/ k * width - BoundedLength(interval) > 1

\* C27: for a Bounded range from_interval returns None exactly when the range
\* is lossy at the power, and from_interval_rounded returns bounds with a flag
\* that is true exactly then; for Empty it returns count 0 at the given power
\* with the flag false.
C27_FromIntervalLossless ==
    arq.op = "from_interval" =>
        /\ arq.in.interval.kind = "Bounded" =>
              /\ arq.out.exact.kind \in {"Some", "None"}
              /\ arq.out.exact.kind = "None" <=>
                    Lossy(arq.in.interval, arq.in.quantum_power, arq.in.power)
              /\ arq.out.rounded.kind = "Some"
              /\ arq.out.rounded.flag <=>
                    Lossy(arq.in.interval, arq.in.quantum_power, arq.in.power)
        /\ arq.in.interval.kind = "Empty" =>
              /\ arq.out.rounded.kind = "Some"
              /\ Unwrap(arq.out.rounded.arq).count = 0
              /\ Unwrap(arq.out.rounded.arq).power = arq.in.power
              /\ ~arq.out.rounded.flag

\* Witness of C27: a range that wraps around the end of the ring, one unit
\* short of two chunks, is taken without loss.
C27_Witness ==
    /\ arq.op = "from_interval"
    /\ arq.in.interval.kind = "Bounded"
    /\ arq.in.interval.lo > arq.in.interval.hi
    /\ arq.in.power > 0
    /\ BoundedLength(arq.in.interval) = 2 * chunk_size(arq.in.quantum_power, arq.in.power) - 1
    /\ arq.out.exact.kind = "Some"
    /\ ~arq.out.rounded.flag

\* The length is quantum * 2^power * count exactly.
ExactSize(size, quantum_power, len) ==
    \/ size.count = 0 /\ len = 0
    \/ size.power <= Bits /\ quantum(quantum_power) * 2^size.power * size.count = len

\* C29: for every len up to the ring and max_chunks >= 1,
\* power_and_count_from_length returns a count <= max_chunks, and the result
\* is exact whenever len = quantum * 2^k * c for some c <= max_chunks.
C29_ApproximateFit ==
    arq.op = "power_and_count_from_length" =>
        /\ arq.out.count <= arq.in.max_chunks
        /\ (\E k \in 0 .. Bits, c \in 0 .. arq.in.max_chunks :
               arq.in.len = quantum(arq.in.quantum_power) * 2^k * c)
              => ExactSize(arq.out, arq.in.quantum_power, arq.in.len)

\* Witness of C29: a length of max_chunks chunks of a power above 1 is
\* fitted exactly.
C29_Witness ==
    /\ arq.op = "power_and_count_from_length"
    /\ arq.out.power >= 2
    /\ arq.in.max_chunks >= 3
    /\ arq.out.count = arq.in.max_chunks
    /\ ExactSize(arq.out, arq.in.quantum_power, arq.in.len)

\* C28: for every len up to the ring and every min_chunks,
\* power_and_count_from_length_exact returns None exactly when len is not a
\* multiple of the quantum, and otherwise a (power, count) with
\* quantum * 2^power * count = len and count >= min_chunks.
C28_ExactFit ==
    arq.op = "power_and_count_from_length_exact" =>
        IF arq.in.len % quantum(arq.in.quantum_power) # 0
            THEN arq.out.kind = "None"
            ELSE /\ arq.out.kind = "Some"
                 /\ ExactSize(Unwrap(arq.out.size), arq.in.quantum_power, arq.in.len)
                 /\ Unwrap(arq.out.size).count >= arq.in.min_chunks

C23_ArcRoundTrip ==
    arq.op = "dht_arc_roundtrip" =>
        /\ IsSome(arq.out.arc) /\ IsSome(arq.out.arq2) /\ IsSome(arq.out.arc2)
        /\ range_length(Unwrap(arq.out.arc).range)
              = Unwrap(absolute_length(arq.in.arq, arq.in.quantum_power, FALSE))
        /\ range_length(to_dht_arc_range(arq.in.arq, arq.in.quantum_power))
              = Unwrap(absolute_length(arq.in.arq, arq.in.quantum_power, FALSE))
        /\ equivalent(arq.in.quantum_power, arq.in.arq, Unwrap(arq.out.arq2))
        /\ Unwrap(arq.out.arc2).range = Unwrap(arq.out.arc).range

\* Witness of C23: a fit that loses length, at a power above 0, with an arc
\* that wraps around the end of the ring, is fitted again to a finer arq.
C23_Witness ==
    /\ arq.op = "dht_arc_roundtrip"
    /\ arq.in.debug
    /\ IsSome(arq.out.arc) /\ IsSome(arq.out.arq2)
    /\ Unwrap(arq.out.arc).range.kind = "Bounded"
    /\ Unwrap(arq.out.arc).range.hi < Unwrap(arq.out.arc).range.lo
    /\ range_length(Unwrap(arq.out.arc).range) # arq.in.len
    /\ arq.in.arq.power > 0
    /\ Unwrap(arq.out.arq2).power < arq.in.arq.power

\* from_interval returned bounds equivalent to the bounds of the fitted arq.
BackEquivalent ==
    /\ arq.out.back.kind = "Some"
    /\ bounds_equivalent(arq.in.quantum_power, arq.in.bounds, Unwrap(arq.out.back.arq))

\* C26: for the bounds a of every fitted arq,
\* from_interval(a.power, a.to_dht_arc_range()) is Some bounds equivalent to
\* a, also when the range wraps around the end of the ring.
C26_IntervalRoundTrip == arq.op = "arc_interval_roundtrip" => BackEquivalent

\* C26 as the code has it: the same for the bounds that are not full; for
\* full bounds from_interval returns the full bounds that start at offset 0.
C26_IntervalRoundTripOfPartial ==
    arq.op = "arc_interval_roundtrip" =>
        IF arq.out.interval.kind # "Full"
            THEN BackEquivalent
            ELSE /\ arq.out.back.kind = "Some"
                 /\ Unwrap(arq.out.back.arq) = [arq.in.bounds EXCEPT !.start = 0]

\* Witness of C26: the range of bounds of two or more chunks wraps around
\* the end of the ring and comes back as the same bounds.
C26_Witness ==
    /\ arq.op = "arc_interval_roundtrip"
    /\ arq.out.interval.kind = "Bounded"
    /\ arq.out.interval.lo > arq.out.interval.hi
    /\ arq.in.bounds.power > 0
    /\ arq.in.bounds.count > 1
    /\ arq.out.back.kind = "Some"
    /\ Unwrap(arq.out.back.arq) = arq.in.bounds

\* Two bounds have equal absolute lengths and equal absolute starts, or both
\* have count 0.
SameInterval(a, b, quantum_power) ==
    \/ a.count = 0 /\ b.count = 0
    \/ /\ absolute_length(a, quantum_power, FALSE) = absolute_length(b, quantum_power, FALSE)
       /\ left_edge(a, quantum_power) = left_edge(b, quantum_power)

\* C31: ArqBounds::equivalent(a, b) is true if and only if a and b have
\* equal absolute lengths and equal absolute starts, or both have count 0;
\* full bounds are never equivalent to empty ones.
C31_EquivalentIffSameInterval ==
    arq.op = "equivalent" =>
        /\ arq.out <=> SameInterval(arq.in.a, arq.in.b, arq.in.quantum_power)
        /\ (is_full(arq.in.quantum_power, arq.in.a.power, arq.in.a.count) /\ arq.in.b.count = 0)
              => ~arq.out

\* C32: for every topology, start and power from 1 to one below the width,
\* new_full returns an arq that is full and whose arc range is Full; is_full
\* is false for every count at power 0 and true for every count at a power
\* of the width or more.
C32_NewFullIsFull ==
    /\ (arq.op = "new_full" /\ arq.in.power >= 1 /\ arq.in.power <= Bits - 1) =>
          /\ arq.out.full.kind = "Some"
          /\ is_full(arq.in.quantum_power, Unwrap(arq.out.full.arq).power, Unwrap(arq.out.full.arq).count)
          /\ arq.out.range = Some(Full)
    /\ arq.op = "is_full" =>
          /\ arq.in.power = 0 => ~arq.out
          /\ arq.in.power >= Bits => arq.out

\* Witness of C32: with debug assertions, a full arq of more than one chunk
\* that starts away from 0, in a topology with a quantum above 1.
C32_Witness ==
    /\ arq.op = "new_full"
    /\ arq.in.debug
    /\ arq.in.quantum_power > 0
    /\ arq.in.start > 0
    /\ arq.in.power >= 1
    /\ arq.out.full.kind = "Some"
    /\ Unwrap(arq.out.full.arq).count > 1
    /\ arq.out.range = Some(Full)

\* C33: absolute_length returns min(chunk width * count, ring) and that is
\* the length of the arq's arc range (the debug assertion of absolute_length
\* holds), also at power 0 and for chunks that are together longer than the
\* ring.
C33_AbsoluteLengthIsRangeLength ==
    arq.op = "to_edge_locs" =>
        /\ IsSome(arq.out.length)
        /\ Unwrap(arq.out.length)
              = Min(absolute_chunk_width(arq.in.a, arq.in.quantum_power) * arq.in.a.count, 2^Bits)
        /\ Unwrap(arq.out.length)
              = range_length(to_dht_arc_range(arq.in.a, arq.in.quantum_power))

\* C34: whenever from_interval returns Some bounds for an arc range, the arc
\* range of the bounds is that arc range.
C34_FromIntervalDenotesInterval ==
    (arq.op = "from_interval" /\ arq.out.exact.kind = "Some") =>
        to_dht_arc_range(Unwrap(arq.out.exact.arq), arq.in.quantum_power) = arq.in.interval

C37_NormalizationEnds ==
    (/\ arq.op = "power_and_count_from_length_exact"
     /\ arq.in.len % quantum(arq.in.quantum_power) = 0) =>
        /\ arq.out.kind = "Some"
        /\ Unwrap(arq.out.size).power <= trailing_zeros(arq.in.len) - arq.in.quantum_power

\* The step on which the incoming_initiate in slot s of instance n completes
\* with an accept.
AcceptCompletes(n, s) == calls[n][s].pc = "register" /\ calls'[n][s].pc = "idle"

\* The outgoing target of n after the step is disarmed and has the agent
\* list that the Initiate of the call in slot s carried.
DisarmedBy(n, s) ==
    /\ Unwrap(initiate_tgt'[n]).when_initiated = None
    /\ Unwrap(initiate_tgt'[n]).remote_agent_list = calls[n][s].remote_agent_list

\* The outgoing target of n after the step is disarmed and has the agent
\* list of the Initiate that was accepted from the target's peer, which the
\* round of that peer keeps.
DisarmedByRound(n) ==
    LET tgt == Unwrap(initiate_tgt'[n])
    IN /\ tgt.when_initiated = None
       /\ tgt.remote_agent_list = Unwrap(round_map'[n][tgt.cert]).remote_agent_list

\* C38: after an incoming_initiate completes, if the round map holds a round
\* for the certificate of the outgoing target, the target's when_initiated is
\* none and its remote_agent_list is the list that the accepted Initiate
\* carried; a target for another peer is left unchanged.
C38_TargetWithRoundDisarmed ==
    [][\A n \in instances, s \in Slot :
          AcceptCompletes(n, s) =>
              /\ (IsSome(initiate_tgt'[n]) /\ IsSome(round_map'[n][Unwrap(initiate_tgt'[n]).cert]))
                    => DisarmedByRound(n)
              /\ (IsSome(initiate_tgt[n]) /\ Unwrap(initiate_tgt[n]).cert # calls[n][s].peer)
                    => initiate_tgt'[n] = initiate_tgt[n]]_vars

\* C38 as the code has it: the target is disarmed and gets the list if it is
\* the target for the peer that was accepted; any other target is left
\* unchanged, whether the round map holds a round for it or not.
C38_AcceptedTargetDisarmed ==
    [][\A n \in instances, s \in Slot :
          AcceptCompletes(n, s) =>
              IF IsSome(initiate_tgt[n]) /\ Unwrap(initiate_tgt[n]).cert = calls[n][s].peer
                  THEN IsSome(initiate_tgt'[n]) /\ DisarmedBy(n, s)
                  ELSE initiate_tgt'[n] = initiate_tgt[n]]_vars

\* Witness of C38: an accept of the peer that had become the outgoing target
\* while the call was under way has disarmed the target and given it the
\* agents of the Initiate.
C38_Witness ==
    /\ HasAccept(returned["A"])
    /\ IsSome(initiate_tgt["A"])
    /\ Unwrap(initiate_tgt["A"]).cert = returned["A"].peer
    /\ Unwrap(initiate_tgt["A"]).when_initiated = None
    /\ Unwrap(initiate_tgt["A"]).remote_agent_list = ExternalAgents(returned["A"].peer)
    /\ IsSome(round_map["A"][returned["A"].peer])

\* The step on which the source chain is flushed.
Flushes == workflow.flush = "-" /\ workflow'.flush # "-"

\* The flush comes after a zome call and an inline validation that returned
\* without error, in a root zome call.
FlushAfterCallAndValidation ==
    Flushes => /\ workflow.zome_call \in {"Ok", "Unauthorized"}
               /\ workflow.validation_result = "Ok"
               /\ workflow.is_root_zome_call

\* The flush comes after call_zome_workflow_inner returned without error,
\* in a root zome call.
FlushAfterInnerOk ==
    Flushes => /\ workflow.zome_call # "-"
               /\ workflow.validation_result = "Ok"
               /\ workflow.is_root_zome_call

\* The triggers fire after a flush that wrote an action, without a
\* countersigning op.
TriggersAfterWrite ==
    ((workflow'.published /\ ~workflow.published) \/ (workflow'.integrated /\ ~workflow.integrated))
        => /\ workflow.flush = "Ok"
           /\ workflow.flushed_actions > 0
           /\ ~workflow.countersigning_op

\* Post-commit is sent after a flush that wrote an action, for a
\* coordinator zome.
PostCommitAfterWrite ==
    (workflow'.post_commit /\ ~workflow.post_commit)
        => /\ workflow.flush = "Ok"
           /\ workflow.flushed_actions > 0
           /\ workflow.coordinator_zome

\* A run that met the outcome Rejected or AwaitingDeps has not flushed.
InvalidNeverFlushed ==
    workflow'.outcome \in {"Rejected", "AwaitingDeps"} => workflow'.flush = "-"

\* A run that met the outcome Rejected or AwaitingDeps ends in InvalidCommit.
InvalidEndsInInvalidCommit ==
    (workflow'.outcome \in {"Rejected", "AwaitingDeps"} /\ workflow'.pc = "done")
        => workflow'.result = "Err(InvalidCommit)"

\* C39: in call_zome_workflow the flush happens only after the zome call and
\* the inline validation returned without error and only in a root zome
\* call; the publish and integrate triggers fire only after a flush that
\* wrote an action, without a countersigning op; post-commit is sent only
\* after such a flush for a coordinator zome; an outcome Rejected or
\* AwaitingDeps gives an InvalidCommit error and no flush.
C39_FlushAfterValidZomeCall ==
    [][/\ FlushAfterCallAndValidation
       /\ TriggersAfterWrite
       /\ PostCommitAfterWrite
       /\ InvalidNeverFlushed
       /\ InvalidEndsInInvalidCommit]_vars

====
